---- MODULE Spec2Model ----
(***************************************************************************)
(* ISCN karyotype validation: KaryotypeParser (parser.py), the rule        *)
(* catalogs (rules/chromosome.py, rules/abnormality.py), RuleEngine        *)
(* (engine.py) and validate_karyotype (main.py).                           *)
(*                                                                         *)
(* A Python str is a sequence of one-character strings.  Optional[T] is a  *)
(* sequence of length 0 (None) or 1.  int | str is a record with the one   *)
(* field int or the one field str.                                         *)
(***************************************************************************)
EXTENDS Integers, Sequences, FiniteSets, TLC

VARIABLES
    rules,               \* _engine._rules: the AST-level catalog (rule ids)
    abnormality_rules,   \* _engine._abnormality_rules (rule ids)
    pc,                  \* position of the current validate_karyotype call
    karyotype,           \* the argument of the current call
    ast,                 \* Optional: the AST returned by _parser.parse
    all_errors,          \* RuleEngine.validate: all_errors
    ri,                  \* index of the next rule of the running for-loop
    ai,                  \* index of the current abnormality of the for-loop
    rule,                \* loop variable: id of the rule applied last
    errors,              \* local: the list returned by the rule applied last
    result,              \* Optional: the ValidationResult returned
    raised,              \* Optional: the exception that escaped the call
    cur,                 \* the thread that is running
    frames               \* the locals of the threads that are not running

vars == <<rules, abnormality_rules, pc, karyotype, ast, all_errors, ri, ai,
          rule, errors, result, raised, cur, frames>>

None == <<>>
Some(x) == <<x>>

(***************************************************************************)
(* Python str primitives                                                   *)
(***************************************************************************)
\* Characters removed by str.strip(): space, newline, tab.
Whitespace == {" ", "\n", "\t"}

\* Characters matched by \d in the patterns (decimal digits).
DecimalDigits == {"0", "1", "2", "3", "4", "5", "6", "7", "8", "9"}

\* U+00B2 SUPERSCRIPT TWO: str.isdigit() is true of it, int() rejects it.
SuperscriptTwo == "sup2"

\* Characters c with c.isdigit(): decimal digits and other digit characters.
IsdigitChars == DecimalDigits \cup {SuperscriptTwo}

DigitValue(c) ==
    CASE c = "0" -> 0 [] c = "1" -> 1 [] c = "2" -> 2 [] c = "3" -> 3
      [] c = "4" -> 4 [] c = "5" -> 5 [] c = "6" -> 6 [] c = "7" -> 7
      [] c = "8" -> 8 [] c = "9" -> 9

DigitChar(d) ==
    CASE d = 0 -> "0" [] d = 1 -> "1" [] d = 2 -> "2" [] d = 3 -> "3"
      [] d = 4 -> "4" [] d = 5 -> "5" [] d = 6 -> "6" [] d = 7 -> "7"
      [] d = 8 -> "8" [] d = 9 -> "9"

Contains(s, c) == \E i \in 1..Len(s) : s[i] = c

\* The slice of s from index i to index j, both 1-based and inclusive; as in
\* Python, bounds outside the string are clamped.
Slice(s, i, j) ==
    LET lo == IF i < 1 THEN 1 ELSE i
        hi == IF j > Len(s) THEN Len(s) ELSE j
    IN IF lo > hi THEN <<>> ELSE SubSeq(s, lo, hi)

RECURSIVE lstrip(_)
lstrip(s) ==
    IF s # <<>> /\ Head(s) \in Whitespace THEN lstrip(Tail(s)) ELSE s

RECURSIVE rstrip(_)
rstrip(s) ==
    IF s # <<>> /\ s[Len(s)] \in Whitespace
    THEN rstrip(Slice(s, 1, Len(s) - 1)) ELSE s

\* str.strip()
strip(s) == rstrip(lstrip(s))

\* Index of the first occurrence of c in s, 0 when there is none.
RECURSIVE FindFrom(_, _, _)
FindFrom(s, c, i) ==
    IF i > Len(s) THEN 0
    ELSE IF s[i] = c THEN i ELSE FindFrom(s, c, i + 1)

find(s, c) == FindFrom(s, c, 1)

\* Index of the last occurrence of c in s, 0 when there is none.
RECURSIVE RFindFrom(_, _, _)
RFindFrom(s, c, i) ==
    IF i < 1 THEN 0
    ELSE IF s[i] = c THEN i ELSE RFindFrom(s, c, i - 1)

rfind(s, c) == RFindFrom(s, c, Len(s))

\* str.split(c): always at least one piece.
RECURSIVE split(_, _)
split(s, c) ==
    LET i == find(s, c) IN
    IF i = 0 THEN <<s>>
    ELSE <<Slice(s, 1, i - 1)>> \o split(Slice(s, i + 1, Len(s)), c)

startswith(s, p) == Len(s) >= Len(p) /\ Slice(s, 1, Len(p)) = p

endswith(s, p) ==
    Len(s) >= Len(p) /\ Slice(s, Len(s) - Len(p) + 1, Len(s)) = p

\* str.isdigit(): non-empty and every character is a digit character.
isdigit(s) == s # <<>> /\ \A i \in 1..Len(s) : s[i] \in IsdigitChars

\* \d+ : non-empty run of decimal digits.
AllDecimal(s) == s # <<>> /\ \A i \in 1..Len(s) : s[i] \in DecimalDigits

\* Value of a run of decimal digits (Python ints are unbounded).
RECURSIVE DecimalValue(_)
DecimalValue(s) ==
    IF s = <<>> THEN 0
    ELSE 10 * DecimalValue(Slice(s, 1, Len(s) - 1)) + DigitValue(s[Len(s)])

\* int(s) on a string of digit characters: the value, or ValueError when a
\* character is not a decimal digit or the string is longer than the
\* interpreter's limit for the conversion (4300 digits by default).
int(s) ==
    IF AllDecimal(s) /\ Len(s) <= 4300
    THEN [tag |-> "ok", val |-> DecimalValue(s)]
    ELSE [tag |-> "ValueError"]

\* str(n) for n >= 0, as used by the f-strings of the messages.
RECURSIVE str(_)
str(n) ==
    IF n < 10 THEN <<DigitChar(n)>>
    ELSE str(n \div 10) \o <<DigitChar(n % 10)>>

\* The text a pattern ending in $ has to match in full: $ matches at the
\* end and just before a newline that ends the string.
BeforeDollar(s) ==
    IF s # <<>> /\ s[Len(s)] = "\n" THEN Slice(s, 1, Len(s) - 1) ELSE s

(***************************************************************************)
(* Outcomes of the parser's functions and the messages                     *)
(***************************************************************************)
Ok(v) == [tag |-> "ok", val |-> v]

\* raise ParseError(f"..."): text is the format string, args the values
\* substituted, each as the string the f-string renders.
ParseError(text, args) ==
    [tag |-> "ParseError", msg |-> [text |-> text, args |-> args]]

ValueError == [tag |-> "ValueError"]

Message(text, args) == [text |-> text, args |-> args]

\* [first] + others, for a list built item by item: the first call that
\* raises ends the construction with its exception.
followed_by(first, others) ==
    IF first.tag # "ok" THEN first
    ELSE IF others.tag # "ok" THEN others
    ELSE Ok(<<first.val>> \o others.val)

(***************************************************************************)
(* models.py                                                               *)
(***************************************************************************)
Breakpoint(arm, region, band, subband, uncertain) ==
    [arm |-> arm, region |-> region, band |-> band, subband |-> subband,
     uncertain |-> uncertain]

Abnormality(type, chromosome, breakpoints, inheritance, uncertain, copy_count, raw) ==
    [type |-> type, chromosome |-> chromosome, breakpoints |-> breakpoints,
     inheritance |-> inheritance, uncertain |-> uncertain,
     copy_count |-> copy_count, raw |-> raw]

CellLine(chromosome_count, sex_chromosomes, abnormalities, count, is_donor) ==
    [chromosome_count |-> chromosome_count,
     sex_chromosomes |-> sex_chromosomes, abnormalities |-> abnormalities,
     count |-> count, is_donor |-> is_donor]

KaryotypeAST(chromosome_count, sex_chromosomes, abnormalities, cell_lines, modifiers) ==
    [chromosome_count |-> chromosome_count,
     sex_chromosomes |-> sex_chromosomes, abnormalities |-> abnormalities,
     cell_lines |-> cell_lines, modifiers |-> modifiers]

ValidationResult(valid, errs, parsed) ==
    [valid |-> valid, errors |-> errs, parsed |-> parsed]

\* chromosome_count: int | str
IntCount(n) == [int |-> n]
StrCount(s) == [str |-> s]
IsStr(count) == DOMAIN count = {"str"}

(***************************************************************************)
(* parser.py: the patterns                                                 *)
(***************************************************************************)
Arms == {"p", "q"}

\* (\d{1,2}|[XY])
IsChromosomeId(s) ==
    \/ Len(s) \in {1, 2} /\ AllDecimal(s)
    \/ s = <<"X">>
    \/ s = <<"Y">>

\* SEX_CHROMOSOMES_PATTERN ^[XYU]+$
SEX_CHROMOSOMES_PATTERN(s) ==
    LET t == BeforeDollar(s) IN
    t # <<>> /\ \A i \in 1..Len(t) : t[i] \in {"X", "Y", "U"}

\* [pq]\d+(?:\.\d+)? matched against the whole of t
IsBreakpointText(t) ==
    /\ Len(t) >= 2
    /\ t[1] \in Arms
    /\ LET rest == Slice(t, 2, Len(t))
           dot == find(rest, ".")
       IN IF dot = 0 THEN AllDecimal(rest)
          ELSE /\ AllDecimal(Slice(rest, 1, dot - 1))
               /\ AllDecimal(Slice(rest, dot + 1, Len(rest)))

\* BREAKPOINT_PATTERN ^([pq])(\d+)(?:\.(\d+))?$ : None, or the groups.
BREAKPOINT_PATTERN(s) ==
    LET t == BeforeDollar(s) IN
    IF ~IsBreakpointText(t) THEN None
    ELSE LET rest == Slice(t, 2, Len(t))
             dot == find(rest, ".")
         IN Some([g1 |-> t[1],
                  g2 |-> IF dot = 0 THEN rest ELSE Slice(rest, 1, dot - 1),
                  g3 |-> IF dot = 0 THEN None
                         ELSE Some(Slice(rest, dot + 1, Len(rest)))])

\* Index of the first arm letter of t at or after i, 0 when there is none.
RECURSIVE NextArm(_, _)
NextArm(t, i) ==
    IF i > Len(t) THEN 0
    ELSE IF t[i] \in Arms THEN i ELSE NextArm(t, i + 1)

\* t cut before every arm letter but the first character: a breakpoint text
\* holds one arm letter, its first character, so a run of breakpoint texts
\* can only be cut at these places.
RECURSIVE CutAtArms(_)
CutAtArms(t) ==
    LET j == NextArm(t, 2) IN
    IF j = 0 THEN <<t>>
    ELSE <<Slice(t, 1, j - 1)>> \o CutAtArms(Slice(t, j, Len(t)))

\* ^([pq]\d+(?:\.\d+)?){n}$ with one group per repetition: None, or the
\* groups in order.
BreakpointRun(s, n) ==
    LET pieces == CutAtArms(BeforeDollar(s)) IN
    IF Len(pieces) = n /\ \A i \in 1..n : IsBreakpointText(pieces[i])
    THEN Some(pieces) ELSE None

\* ^<prefix>([^)]+)\)\(([^)]+)\)$ where prefix ends in "(": None, or the
\* two groups.
TwoGroups(g1, rest) ==
    IF /\ g1 # <<>>
       /\ Len(rest) >= 3
       /\ rest[1] = "("
       /\ rest[Len(rest)] = ")"
       /\ ~Contains(Slice(rest, 2, Len(rest) - 1), ")")
    THEN Some([g1 |-> g1, g2 |-> Slice(rest, 2, Len(rest) - 1)])
    ELSE None

TwoGroupsAt(body, i) ==
    IF i = 0 THEN None
    ELSE TwoGroups(Slice(body, 1, i - 1), Slice(body, i + 1, Len(body)))

TwoGroupsAfter(body) == TwoGroupsAt(body, find(body, ")"))

TwoGroupPattern(prefix, s) ==
    IF ~startswith(BeforeDollar(s), prefix) THEN None
    ELSE TwoGroupsAfter(Slice(BeforeDollar(s), Len(prefix) + 1,
                              Len(BeforeDollar(s))))

\* ^<prefix>(\d{1,2}|[XY])\)\(([^)]+)\)$
OfChromosome(m) == IF m # None /\ IsChromosomeId(m[1].g1) THEN m ELSE None

ChromosomePattern(prefix, s) == OfChromosome(TwoGroupPattern(prefix, s))

DELETION_PATTERN(s) == ChromosomePattern(<<"d", "e", "l", "(">>, s)
DUPLICATION_PATTERN(s) == ChromosomePattern(<<"d", "u", "p", "(">>, s)
INVERSION_PATTERN(s) == ChromosomePattern(<<"i", "n", "v", "(">>, s)
TRANSLOCATION_PATTERN(s) == TwoGroupPattern(<<"t", "(">>, s)
ISOCHROMOSOME_LONG_PATTERN(s) == ChromosomePattern(<<"i", "(">>, s)
RING_BREAKPOINT_PATTERN(s) == ChromosomePattern(<<"r", "(">>, s)
HSR_LOCATION_PATTERN(s) == ChromosomePattern(<<"h", "s", "r", "(">>, s)
INSERTION_PATTERN(s) == TwoGroupPattern(<<"i", "n", "s", "(">>, s)
ADD_PATTERN(s) == ChromosomePattern(<<"a", "d", "d", "(">>, s)

\* NUMERICAL_ABNORMALITY_PATTERN ^([+-])(\d{1,2}|[XY])$
NUMERICAL_ABNORMALITY_PATTERN(s) ==
    LET t == BeforeDollar(s) IN
    IF /\ Len(t) >= 2
       /\ t[1] \in {"+", "-"}
       /\ IsChromosomeId(Slice(t, 2, Len(t)))
    THEN Some([g1 |-> t[1], g2 |-> Slice(t, 2, Len(t))]) ELSE None

\* ISOCHROMOSOME_SHORT_PATTERN ^i\((\d{1,2}|[XY])([pq])\)$
ISOCHROMOSOME_SHORT_PATTERN(s) ==
    LET t == BeforeDollar(s)
        n == Len(t)
    IN IF /\ n >= 5
          /\ startswith(t, <<"i", "(">>)
          /\ t[n] = ")"
          /\ t[n - 1] \in Arms
          /\ IsChromosomeId(Slice(t, 3, n - 2))
       THEN Some([g1 |-> Slice(t, 3, n - 2), g2 |-> t[n - 1]]) ELSE None

\* RING_SIMPLE_PATTERN ^r\((\d{1,2}|[XY])\)$
RING_SIMPLE_PATTERN(s) ==
    LET t == BeforeDollar(s)
        n == Len(t)
    IN IF /\ n >= 4
          /\ startswith(t, <<"r", "(">>)
          /\ t[n] = ")"
          /\ IsChromosomeId(Slice(t, 3, n - 1))
       THEN Some([g1 |-> Slice(t, 3, n - 1)]) ELSE None

\* \d* : a possibly empty run of decimal digits
DecimalOrEmpty(s) == \A i \in 1..Len(s) : s[i] \in DecimalDigits

\* MARKER_PATTERN ^\+(\d*)mar(\d*)$
MARKER_PATTERN(s) ==
    LET t == BeforeDollar(s)
        m == find(t, "m")
    IN IF /\ t # <<>>
          /\ t[1] = "+"
          /\ m >= 2
          /\ DecimalOrEmpty(Slice(t, 2, m - 1))
          /\ Slice(t, m, m + 2) = <<"m", "a", "r">>
          /\ DecimalOrEmpty(Slice(t, m + 3, Len(t)))
       THEN Some([g1 |-> Slice(t, 2, m - 1), g2 |-> Slice(t, m + 3, Len(t))])
       ELSE None

\* DERIVATIVE_PATTERN ^der\((\d{1,2}|[XY])\)(.+)$ ; . matches no newline
DERIVATIVE_PATTERN(s) ==
    LET prefix == <<"d", "e", "r", "(">> IN
    IF ~startswith(s, prefix) THEN None
    ELSE LET body == Slice(s, 5, Len(s))
             i == find(body, ")")
             rest == BeforeDollar(Slice(body, i + 1, Len(body)))
         IN IF /\ i >= 2
               /\ IsChromosomeId(Slice(body, 1, i - 1))
               /\ rest # <<>>
               /\ ~Contains(rest, "\n")
            THEN Some([g1 |-> Slice(body, 1, i - 1), g2 |-> rest])
            ELSE None

\* DMIN_PATTERN ^dmin$
DMIN_PATTERN(s) == BeforeDollar(s) = <<"d", "m", "i", "n">>

\* HSR_SIMPLE_PATTERN ^hsr$
HSR_SIMPLE_PATTERN(s) == BeforeDollar(s) = <<"h", "s", "r">>

\* CELL_LINE_COUNT_PATTERN ^(.+?)\[(\d+)\]$ ; the text after group 1 is
\* "[", digits, "]", so group 1 ends before the last "[".
CELL_LINE_COUNT_PATTERN(s) ==
    LET t == BeforeDollar(s)
        n == Len(t)
        i == rfind(t, "[")
    IN IF /\ i >= 2
          /\ t[n] = "]"
          /\ AllDecimal(Slice(t, i + 1, n - 1))
          /\ ~Contains(Slice(t, 1, i - 1), "\n")
       THEN Some([g1 |-> Slice(t, 1, i - 1), g2 |-> Slice(t, i + 1, n - 1)])
       ELSE None

(***************************************************************************)
(* parser.py: KaryotypeParser                                              *)
(***************************************************************************)
\* Mutant: a count with "~" is accepted only between two runs of digits.
parse_chromosome_count_checked_range(field) ==
    LET count_str == strip(field)
        at == find(count_str, "~")
    IN
    IF /\ at # 0
       /\ isdigit(Slice(count_str, 1, at - 1))
       /\ isdigit(Slice(count_str, at + 1, Len(count_str)))
    THEN Ok(StrCount(count_str))
    ELSE IF ~isdigit(count_str)
    THEN ParseError("Invalid chromosome count: '{}' is not a number",
                    <<count_str>>)
    ELSE LET n == int(count_str) IN
         IF n.tag = "ok" THEN Ok(IntCount(n.val)) ELSE ValueError

\* _parse_chromosome_count
parse_chromosome_count(field) ==
    LET count_str == strip(field) IN
    IF Contains(count_str, "~") THEN Ok(StrCount(count_str))
    ELSE IF ~isdigit(count_str)
    THEN ParseError("Invalid chromosome count: '{}' is not a number",
                    <<count_str>>)
    ELSE LET n == int(count_str) IN
         IF n.tag = "ok" THEN Ok(IntCount(n.val)) ELSE ValueError

\* _parse_sex_chromosomes
parse_sex_chromosomes(field) ==
    LET sex_str == strip(field) IN
    IF ~SEX_CHROMOSOMES_PATTERN(sex_str)
    THEN ParseError("Invalid sex chromosomes: '{}' must contain only X, Y, or U",
                    <<sex_str>>)
    ELSE Ok(sex_str)

\* _parse_breakpoint
\* _parse_breakpoint from "arm = match.group(1)" on: region is the first
\* digit, band the other digits (0 when there is none).
breakpoint_of_band(arm, region, band, subband) ==
    IF band.tag # "ok" THEN band
    ELSE Ok(Breakpoint(arm, region, band.val, subband, FALSE))

breakpoint_of_groups(arm, region_band, subband) ==
    breakpoint_of_band(arm, int(<<region_band[1]>>).val,
                       IF Len(region_band) >= 2
                       THEN int(Slice(region_band, 2, Len(region_band)))
                       ELSE Ok(0),
                       subband)

\* _parse_breakpoint after "match = self.BREAKPOINT_PATTERN.match(bp_str)"
breakpoint_of_match(bp_str, match) ==
    IF match = None
    THEN ParseError("Invalid breakpoint format: '{}'", <<bp_str>>)
    ELSE breakpoint_of_groups(match[1].g1, match[1].g2, match[1].g3)

parse_breakpoint(bp_str) ==
    breakpoint_of_match(bp_str, BREAKPOINT_PATTERN(bp_str))

\* [self._parse_breakpoint(s) for s in strs], and the appends of
\* breakpoints one after the other: the first failure is the one raised.
RECURSIVE parse_breakpoints(_)
parse_breakpoints(strs) ==
    IF strs = <<>> THEN Ok(<<>>)
    ELSE followed_by(parse_breakpoint(Head(strs)),
                     parse_breakpoints(Tail(strs)))

\* The return statement of a sub-parser: the Abnormality of the breakpoints
\* parsed, or the exception their parsing raised.
abnormality_of_breakpoints(type, chromosome, breakpoints, part) ==
    IF breakpoints.tag # "ok" THEN breakpoints
    ELSE Ok(Abnormality(type, chromosome, breakpoints.val, None, FALSE, None,
                        part))

\* The breakpoints of del and dup: a double breakpoint, else a single one.
breakpoint_strs(breakpoint_str, double_bp) ==
    IF double_bp # None THEN double_bp[1] ELSE <<breakpoint_str>>

one_or_two_breakpoints(breakpoint_str) ==
    parse_breakpoints(
        breakpoint_strs(breakpoint_str, BreakpointRun(breakpoint_str, 2)))

\* _parse_deletion
deletion_of_match(part, match) ==
    IF match = None
    THEN ParseError("Invalid deletion format: '{}'", <<part>>)
    ELSE abnormality_of_breakpoints(
             "del", match[1].g1,
             one_or_two_breakpoints(match[1].g2),
             part)

parse_deletion(part) == deletion_of_match(part, DELETION_PATTERN(part))

\* _parse_duplication
duplication_of_match(part, match) ==
    IF match = None
    THEN ParseError("Invalid duplication format: '{}'", <<part>>)
    ELSE abnormality_of_breakpoints(
             "dup", match[1].g1,
             one_or_two_breakpoints(match[1].g2),
             part)

parse_duplication(part) == duplication_of_match(part, DUPLICATION_PATTERN(part))

\* _parse_inversion
inversion_of_breakpoints(part, chromosome, double_bp) ==
    IF double_bp = None
    THEN ParseError("Inversion requires two breakpoints: '{}'", <<part>>)
    ELSE abnormality_of_breakpoints(
             "inv", chromosome,
             parse_breakpoints(double_bp[1]),
             part)

\* Mutant: an inversion takes one or two breakpoints, as a deletion does.
inversion_of_match_one_or_two(part, match) ==
    IF match = None
    THEN ParseError("Invalid inversion format: '{}'", <<part>>)
    ELSE abnormality_of_breakpoints(
             "inv", match[1].g1,
             one_or_two_breakpoints(match[1].g2),
             part)

inversion_of_match(part, match) ==
    IF match = None
    THEN ParseError("Invalid inversion format: '{}'", <<part>>)
    ELSE inversion_of_breakpoints(part, match[1].g1,
                                  BreakpointRun(match[1].g2, 2))

parse_inversion(part) == inversion_of_match(part, INVERSION_PATTERN(part))

\* [bp.strip() for bp in bp_parts]
StripAll(parts) == [i \in 1..Len(parts) |-> strip(parts[i])]

\* _parse_translocation
translocation_of_match(part, match) ==
    IF match = None
    THEN ParseError("Invalid translocation format: '{}'", <<part>>)
    ELSE abnormality_of_breakpoints(
             "t", match[1].g1,
             parse_breakpoints(StripAll(split(match[1].g2, ";"))),
             part)

parse_translocation(part) ==
    translocation_of_match(part, TRANSLOCATION_PATTERN(part))

\* _parse_isochromosome
isochromosome_of_matches(part, short_match, long_match) ==
    IF short_match # None
    THEN Ok(Abnormality("i", short_match[1].g1,
               <<Breakpoint(short_match[1].g2, 1, 0, None, FALSE)>>,
               None, FALSE, None, part))
    ELSE IF long_match # None
    THEN abnormality_of_breakpoints(
             "i", long_match[1].g1,
             parse_breakpoints(<<long_match[1].g2>>),
             part)
    ELSE ParseError("Invalid isochromosome format: '{}'", <<part>>)

parse_isochromosome(part) ==
    isochromosome_of_matches(part, ISOCHROMOSOME_SHORT_PATTERN(part),
                             ISOCHROMOSOME_LONG_PATTERN(part))

\* _parse_ring
\* The breakpoints of r: those of a double breakpoint, else none.
ring_breakpoint_strs(double_bp) ==
    IF double_bp # None THEN double_bp[1] ELSE <<>>

ring_of_matches(part, simple_match, bp_match) ==
    IF simple_match # None
    THEN Ok(Abnormality("r", simple_match[1].g1, <<>>, None, FALSE, None,
                        part))
    ELSE IF bp_match # None
    THEN abnormality_of_breakpoints(
             "r", bp_match[1].g1,
             parse_breakpoints(ring_breakpoint_strs(BreakpointRun(bp_match[1].g2, 2))),
             part)
    ELSE ParseError("Invalid ring chromosome format: '{}'", <<part>>)

parse_ring(part) ==
    ring_of_matches(part, RING_SIMPLE_PATTERN(part),
                    RING_BREAKPOINT_PATTERN(part))

\* _parse_insertion
\* The insertion point and the segment of "ins(A;B)(p;q1q2)".
insertion_with_semicolon(insertion_str, segment_str) ==
    parse_breakpoints(
        <<insertion_str>>
            \o breakpoint_strs(segment_str, BreakpointRun(segment_str, 2)))

\* The three breakpoints of "ins(A)(p1p2p3)".
insertion_without_semicolon(breakpoints_str, triple_bp) ==
    IF triple_bp # None THEN parse_breakpoints(triple_bp[1])
    ELSE ParseError("Invalid insertion breakpoints: '{}'",
                    <<breakpoints_str>>)

insertion_breakpoints(breakpoints_str, bp_parts) ==
    IF Contains(breakpoints_str, ";")
    THEN insertion_with_semicolon(strip(bp_parts[1]), strip(bp_parts[2]))
    ELSE insertion_without_semicolon(breakpoints_str,
                                     BreakpointRun(breakpoints_str, 3))

insertion_of_match(part, match) ==
    IF match = None
    THEN ParseError("Invalid insertion format: '{}'", <<part>>)
    ELSE abnormality_of_breakpoints(
             "ins", match[1].g1,
             insertion_breakpoints(match[1].g2, split(match[1].g2, ";")),
             part)

parse_insertion(part) == insertion_of_match(part, INSERTION_PATTERN(part))

\* _parse_add
add_of_match(part, match) ==
    IF match = None
    THEN ParseError("Invalid additional material format: '{}'", <<part>>)
    ELSE abnormality_of_breakpoints(
             "add", match[1].g1,
             parse_breakpoints(<<match[1].g2>>),
             part)

parse_add(part) == add_of_match(part, ADD_PATTERN(part))

\* abn.uncertain = uncertain; abn.inheritance = inheritance;
\* abn.raw = original_part, on what a sub-parser returned.
\* Mutant: the inheritance suffix is taken off the token and forgotten.
with_markers_no_inheritance(abn, uncertain, inheritance, original_part) ==
    IF abn.tag # "ok" THEN abn
    ELSE Ok([abn.val EXCEPT !.uncertain = uncertain,
                            !.raw = original_part])

with_markers(abn, uncertain, inheritance, original_part) ==
    IF abn.tag # "ok" THEN abn
    ELSE Ok([abn.val EXCEPT !.uncertain = uncertain,
                            !.inheritance = inheritance,
                            !.raw = original_part])

\* The MARKER_PATTERN branch: copy_count is int(count_str) when count_str
\* is not empty, else None.
marker_of_count(original_part, uncertain, inheritance, count_str, copy_count, marker_id) ==
    IF count_str # <<>> /\ copy_count.tag # "ok" THEN copy_count
    ELSE Ok(Abnormality("+mar", <<"m", "a", "r">> \o marker_id, <<>>,
                        inheritance, uncertain,
                        IF count_str # <<>> THEN Some(copy_count.val)
                        ELSE None,
                        original_part))

\* The HSR_LOCATION_PATTERN branch.
hsr_of_breakpoint(original_part, uncertain, inheritance, chromosome, breakpoint) ==
    IF breakpoint.tag # "ok" THEN breakpoint
    ELSE Ok(Abnormality("hsr", chromosome, <<breakpoint.val>>, inheritance,
                        uncertain, None, original_part))

\* The if-chain of the for-loop of _parse_abnormalities, each match where
\* the chain computes it.
abnormality_of_matches(original_part, uncertain, inheritance, part, num_match, mar_match, der_match, hsr_loc_match) ==
    IF num_match # None
    THEN Ok(Abnormality(num_match[1].g1, num_match[1].g2, <<>>, inheritance,
                        uncertain, None, original_part))
    ELSE IF startswith(part, <<"d", "e", "l", "(">>)
    THEN with_markers(parse_deletion(part), uncertain, inheritance,
                      original_part)
    ELSE IF startswith(part, <<"a", "d", "d", "(">>)
    THEN with_markers(parse_add(part), uncertain, inheritance, original_part)
    ELSE IF startswith(part, <<"d", "u", "p", "(">>)
    THEN with_markers(parse_duplication(part), uncertain, inheritance,
                      original_part)
    ELSE IF startswith(part, <<"i", "n", "v", "(">>)
    THEN with_markers(parse_inversion(part), uncertain, inheritance,
                      original_part)
    ELSE IF startswith(part, <<"t", "(">>)
    THEN with_markers(parse_translocation(part), uncertain, inheritance,
                      original_part)
    ELSE IF startswith(part, <<"i", "n", "s", "(">>)
    THEN with_markers(parse_insertion(part), uncertain, inheritance,
                      original_part)
    ELSE IF startswith(part, <<"i", "(">>)
    THEN with_markers(parse_isochromosome(part), uncertain, inheritance,
                      original_part)
    ELSE IF startswith(part, <<"r", "(">>)
    THEN with_markers(parse_ring(part), uncertain, inheritance,
                      original_part)
    ELSE IF mar_match # None
    THEN marker_of_count(original_part, uncertain, inheritance,
                         mar_match[1].g1, int(mar_match[1].g1),
                         mar_match[1].g2)
    ELSE IF der_match # None
    THEN Ok(Abnormality("der", der_match[1].g1, <<>>, inheritance, uncertain,
                        None, original_part))
    ELSE IF DMIN_PATTERN(part)
    THEN Ok(Abnormality("dmin", <<>>, <<>>, inheritance, uncertain, None,
                        original_part))
    ELSE IF hsr_loc_match # None
    THEN hsr_of_breakpoint(original_part, uncertain, inheritance,
                           hsr_loc_match[1].g1,
                           parse_breakpoint(hsr_loc_match[1].g2))
    ELSE IF HSR_SIMPLE_PATTERN(part)
    THEN Ok(Abnormality("hsr", <<>>, <<>>, inheritance, uncertain, None,
                        original_part))
    ELSE Ok(Abnormality("unknown", <<>>, <<>>, inheritance, uncertain, None,
                        original_part))

\* The body of the for-loop of _parse_abnormalities once the "?" prefix and
\* the inheritance suffix are taken off: the if-chain over the patterns.
abnormality_of_part(original_part, uncertain, inheritance, part) ==
    abnormality_of_matches(original_part, uncertain, inheritance, part,
                           NUMERICAL_ABNORMALITY_PATTERN(part),
                           MARKER_PATTERN(part),
                           DERIVATIVE_PATTERN(part),
                           HSR_LOCATION_PATTERN(part))

\* Mutant: raw is the token without its "?" and its inheritance suffix.
parse_abnormality_raw_part(original_part) ==
    LET uncertain == startswith(original_part, <<"?">>)
        part1 == IF uncertain THEN Slice(original_part, 2, Len(original_part))
                 ELSE original_part
        inheritance ==
            IF endswith(part1, <<"m", "a", "t">>) THEN Some("mat")
            ELSE IF endswith(part1, <<"p", "a", "t">>) THEN Some("pat")
            ELSE IF endswith(part1, <<"d", "n">>) THEN Some("dn")
            ELSE None
        part ==
            IF inheritance = None THEN part1
            ELSE IF inheritance = Some("dn") THEN Slice(part1, 1, Len(part1) - 2)
            ELSE Slice(part1, 1, Len(part1) - 3)
    IN abnormality_of_part(part, uncertain, inheritance, part)

\* The body of the for-loop of _parse_abnormalities, for one non-empty
\* stripped part.
parse_abnormality(original_part) ==
    LET uncertain == startswith(original_part, <<"?">>)
        part1 == IF uncertain THEN Slice(original_part, 2, Len(original_part))
                 ELSE original_part
        inheritance ==
            IF endswith(part1, <<"m", "a", "t">>) THEN Some("mat")
            ELSE IF endswith(part1, <<"p", "a", "t">>) THEN Some("pat")
            ELSE IF endswith(part1, <<"d", "n">>) THEN Some("dn")
            ELSE None
        part ==
            IF inheritance = None THEN part1
            ELSE IF inheritance = Some("dn") THEN Slice(part1, 1, Len(part1) - 2)
            ELSE Slice(part1, 1, Len(part1) - 3)
    IN abnormality_of_part(original_part, uncertain, inheritance, part)

\* Mutant: an empty part is parsed like any other part.
RECURSIVE parse_abnormalities_keeping_empty(_)
parse_abnormalities_keeping_empty(parts) ==
    IF parts = <<>> THEN Ok(<<>>)
    ELSE followed_by(parse_abnormality(strip(Head(parts))),
                     parse_abnormalities_keeping_empty(Tail(parts)))

\* _parse_abnormalities: the parts from left to right, empty ones skipped;
\* the first part that fails ends the loop with its ParseError.
RECURSIVE parse_abnormalities(_)
parse_abnormalities(parts) ==
    IF parts = <<>> THEN Ok(<<>>)
    ELSE IF strip(Head(parts)) = <<>> THEN parse_abnormalities(Tail(parts))
    ELSE followed_by(parse_abnormality(strip(Head(parts))),
                     parse_abnormalities(Tail(parts)))

\* Mutant: the chromosome count is parsed before the comma is looked for.
parse_single_karyotype_count_first(text, extract_count) ==
    LET count_match == CELL_LINE_COUNT_PATTERN(text)
        extracted == extract_count /\ count_match # None
        k == IF extracted THEN count_match[1].g1 ELSE text
        count == IF extracted THEN int(count_match[1].g2) ELSE Ok(0)
        parts == split(k, ",")
        chromosome_count == parse_chromosome_count(parts[1])
    IN
    IF count.tag # "ok" THEN count
    ELSE IF chromosome_count.tag # "ok" THEN chromosome_count
    ELSE IF ~Contains(k, ",")
    THEN ParseError("Missing comma separator between chromosome count and sex chromosomes",
                    <<>>)
    ELSE
    LET sex_chromosomes == parse_sex_chromosomes(parts[2]) IN
    IF sex_chromosomes.tag # "ok" THEN sex_chromosomes
    ELSE
    LET abnormalities ==
            IF Len(parts) > 2
            THEN parse_abnormalities(Slice(parts, 3, Len(parts)))
            ELSE Ok(<<>>)
    IN
    IF abnormalities.tag # "ok" THEN abnormalities
    ELSE Ok([ast |-> KaryotypeAST(chromosome_count.val, sex_chromosomes.val,
                                  abnormalities.val, None, None),
             count |-> count.val])

\* Mutant: the sex chromosomes are looked at before the chromosome count.
single_of_fields_sex_first(chromosome_count, sex_chromosomes, abnormalities, count) ==
    IF sex_chromosomes.tag # "ok" THEN sex_chromosomes
    ELSE IF chromosome_count.tag # "ok" THEN chromosome_count
    ELSE IF abnormalities.tag # "ok" THEN abnormalities
    ELSE Ok([ast |-> KaryotypeAST(chromosome_count.val, sex_chromosomes.val,
                                  abnormalities.val, None, None),
             count |-> count])

\* _parse_single_karyotype, the return statement: each field as its parser
\* returned it, the first exception being the one raised.
single_of_fields(chromosome_count, sex_chromosomes, abnormalities, count) ==
    IF chromosome_count.tag # "ok" THEN chromosome_count
    ELSE IF sex_chromosomes.tag # "ok" THEN sex_chromosomes
    ELSE IF abnormalities.tag # "ok" THEN abnormalities
    ELSE Ok([ast |-> KaryotypeAST(chromosome_count.val, sex_chromosomes.val,
                                  abnormalities.val, None, None),
             count |-> count])

\* _parse_single_karyotype from "parts = karyotype.split(',')" on
single_of_parts(parts, count) ==
    single_of_fields(parse_chromosome_count(parts[1]),
                     parse_sex_chromosomes(parts[2]),
                     IF Len(parts) > 2
                     THEN parse_abnormalities(Slice(parts, 3, Len(parts)))
                     ELSE Ok(<<>>),
                     count)

\* _parse_single_karyotype once the cell count is taken off the text.
single_of_text(k, count) ==
    IF count.tag # "ok" THEN count
    ELSE IF ~Contains(k, ",")
    THEN ParseError("Missing comma separator between chromosome count and sex chromosomes",
                    <<>>)
    ELSE single_of_parts(split(k, ","), count.val)

\* _parse_single_karyotype after the match of CELL_LINE_COUNT_PATTERN (None
\* when extract_count is false).
single_of_count_match(text, count_match) ==
    single_of_text(IF count_match # None THEN count_match[1].g1 ELSE text,
                   IF count_match # None THEN int(count_match[1].g2)
                   ELSE Ok(0))

\* _parse_single_karyotype: Ok of the pair [ast, count] (count is 0 and
\* unused when extract_count is false).
parse_single_karyotype(text, extract_count) ==
    single_of_count_match(text, IF extract_count
                                THEN CELL_LINE_COUNT_PATTERN(text)
                                ELSE None)

\* Mutant: a segment that fails ends the loop, and the cell lines parsed
\* before it are kept.
RECURSIVE parse_cell_lines_partial(_)
parse_cell_lines_partial(cell_line_strs) ==
    IF cell_line_strs = <<>> THEN Ok(<<>>)
    ELSE LET line_str == strip(Head(cell_line_strs))
             line == parse_single_karyotype(line_str, TRUE)
         IN IF line.tag # "ok" THEN line
            ELSE LET others == parse_cell_lines_partial(Tail(cell_line_strs))
                     this == CellLine(line.val.ast.chromosome_count,
                                      line.val.ast.sex_chromosomes,
                                      line.val.ast.abnormalities,
                                      line.val.count, FALSE)
                 IN IF others.tag # "ok" THEN Ok(<<this>>)
                    ELSE Ok(<<this>> \o others.val)

\* CellLine(...) of what _parse_single_karyotype returned for a segment.
cell_line_of(line) ==
    IF line.tag # "ok" THEN line
    ELSE Ok(CellLine(line.val.ast.chromosome_count,
                     line.val.ast.sex_chromosomes,
                     line.val.ast.abnormalities, line.val.count, FALSE))

\* The for-loop of _parse_mosaic: the cell lines of the segments from left
\* to right; the first segment that fails ends the loop with its exception.
RECURSIVE parse_cell_lines(_)
parse_cell_lines(cell_line_strs) ==
    IF cell_line_strs = <<>> THEN Ok(<<>>)
    ELSE followed_by(
             cell_line_of(
                 parse_single_karyotype(strip(Head(cell_line_strs)), TRUE)),
             parse_cell_lines(Tail(cell_line_strs)))

\* Mutant: the last cell line, not the first, gives the main karyotype.
mosaic_of_cell_lines_last(cell_lines) ==
    IF cell_lines.tag # "ok" THEN cell_lines
    ELSE Ok(KaryotypeAST(cell_lines.val[Len(cell_lines.val)].chromosome_count,
                         cell_lines.val[Len(cell_lines.val)].sex_chromosomes,
                         cell_lines.val[Len(cell_lines.val)].abnormalities,
                         Some(cell_lines.val), None))

\* Mutant: the top-level abnormalities are those of the first cell line
\* followed by those of the last.
mosaic_of_cell_lines_with_last(cell_lines) ==
    IF cell_lines.tag # "ok" THEN cell_lines
    ELSE Ok(KaryotypeAST(cell_lines.val[1].chromosome_count,
                         cell_lines.val[1].sex_chromosomes,
                         cell_lines.val[1].abnormalities
                             \o cell_lines.val[Len(cell_lines.val)].abnormalities,
                         Some(cell_lines.val), None))

\* _parse_mosaic
mosaic_of_cell_lines(cell_lines) ==
    IF cell_lines.tag # "ok" THEN cell_lines
    ELSE Ok(KaryotypeAST(cell_lines.val[1].chromosome_count,
                         cell_lines.val[1].sex_chromosomes,
                         cell_lines.val[1].abnormalities,
                         Some(cell_lines.val), None))

parse_mosaic(text) == mosaic_of_cell_lines(parse_cell_lines(split(text, "/")))

\* Mutant: only the empty string is rejected as empty.
IsBlank_empty_only(text) == text = <<>>

\* "not karyotype or not karyotype.strip()"
IsBlank(text) == text = <<>> \/ strip(text) = <<>>

\* "ast, _ = self._parse_single_karyotype(karyotype)"
ast_of_single(single) ==
    IF single.tag # "ok" THEN single ELSE Ok(single.val.ast)

\* KaryotypeParser.parse
parse(text) ==
    IF IsBlank(text) THEN ParseError("Karyotype string is empty", <<>>)
    ELSE IF Contains(strip(text), "/") THEN parse_mosaic(strip(text))
    ELSE ast_of_single(parse_single_karyotype(strip(text), FALSE))

(***************************************************************************)
(* rules/chromosome.py                                                     *)
(***************************************************************************)
validate_chromosome_count_numeric(ast_, target) ==
    IF IsStr(ast_.chromosome_count)
    THEN IF Contains(ast_.chromosome_count.str, "~") THEN <<>>
         ELSE <<Message("Chromosome count '{}' is not numeric",
                        <<ast_.chromosome_count.str>>)>>
    ELSE <<>>

\* Mutant: the lower limit is excluded (count <= 23).
validate_chromosome_count_range_exclusive(ast_, target) ==
    LET count == ast_.chromosome_count IN
    IF IsStr(count) THEN <<>>
    ELSE IF count.int <= 23 \/ count.int > 92
    THEN <<Message("Chromosome count {} is outside valid range (must be between 23 and 92)",
                   <<str(count.int)>>)>>
    ELSE <<>>

validate_chromosome_count_range(ast_, target) ==
    LET count == ast_.chromosome_count IN
    IF IsStr(count) THEN <<>>
    ELSE IF count.int < 23 \/ count.int > 92
    THEN <<Message("Chromosome count {} is outside valid range (must be between 23 and 92)",
                   <<str(count.int)>>)>>
    ELSE <<>>

\* Mutant: the undisclosed marker "U" is not exempt.
validate_sex_chromosomes_valid_no_exemption(ast_, target) ==
    LET sex == ast_.sex_chromosomes IN
    IF ~Contains(sex, "X")
    THEN <<Message("Sex chromosomes '{}' must contain at least one X chromosome",
                   <<sex>>)>>
    ELSE <<>>

validate_sex_chromosomes_valid(ast_, target) ==
    LET sex == ast_.sex_chromosomes IN
    IF sex = <<"U">> THEN <<>>
    ELSE IF ~Contains(sex, "X")
    THEN <<Message("Sex chromosomes '{}' must contain at least one X chromosome",
                   <<sex>>)>>
    ELSE <<>>

\* Mutant: the relation count = 44 + len(sex) is enforced for every count.
validate_sex_chromosomes_coherence_general(ast_, target) ==
    LET count == ast_.chromosome_count
        sex == ast_.sex_chromosomes
        sex_count == Len(sex)
    IN IF IsStr(count) \/ sex = <<"U">> THEN <<>>
       ELSE IF ast_.abnormalities = <<>> /\ count.int # 44 + sex_count
       THEN <<Message("Chromosome count {} does not fit {} sex chromosomes ('{}')",
                      <<str(count.int), str(sex_count), sex>>)>>
       ELSE <<>>

\* Mutant: the check ignores whether abnormalities are listed.
validate_sex_chromosomes_coherence_always(ast_, target) ==
    LET count == ast_.chromosome_count
        sex == ast_.sex_chromosomes
        sex_count == Len(sex)
    IN IF IsStr(count) \/ sex = <<"U">> THEN <<>>
       ELSE IF count.int = 46 /\ sex_count # 2
       THEN <<Message("Chromosome count 46 requires 2 sex chromosomes, but found {} ('{}')",
                      <<str(sex_count), sex>>)>>
       ELSE IF count.int = 45 /\ sex_count # 1
       THEN <<Message("Chromosome count 45 requires 1 sex chromosome, but found {} ('{}')",
                      <<str(sex_count), sex>>)>>
       ELSE IF count.int = 47 /\ sex_count # 3
       THEN <<Message("Chromosome count 47 requires 3 sex chromosomes, but found {} ('{}')",
                      <<str(sex_count), sex>>)>>
       ELSE <<>>

validate_sex_chromosomes_coherence(ast_, target) ==
    LET count == ast_.chromosome_count
        sex == ast_.sex_chromosomes
        sex_count == Len(sex)
    IN IF IsStr(count) \/ sex = <<"U">> THEN <<>>
       ELSE IF ast_.abnormalities = <<>> /\ count.int = 46 /\ sex_count # 2
       THEN <<Message("Chromosome count 46 requires 2 sex chromosomes, but found {} ('{}')",
                      <<str(sex_count), sex>>)>>
       ELSE IF ast_.abnormalities = <<>> /\ count.int = 45 /\ sex_count # 1
       THEN <<Message("Chromosome count 45 requires 1 sex chromosome, but found {} ('{}')",
                      <<str(sex_count), sex>>)>>
       ELSE <<>>

\* The ids of the rules, in the order of the exported list.
ALL_CHROMOSOME_RULES ==
    <<"CHR_COUNT_NUMERIC", "CHR_COUNT_RANGE", "SEX_CHR_VALID",
      "SEX_CHR_COHERENCE">>

(***************************************************************************)
(* rules/abnormality.py                                                    *)
(***************************************************************************)
VALID_CHROMOSOMES == {str(i) : i \in 1..22} \cup {<<"X">>, <<"Y">>}

\* Mutant: the chromosome of an abnormality of any type is checked.
validate_numerical_chromosome_every_type(ast_, abnormality) ==
    IF abnormality.chromosome \notin VALID_CHROMOSOMES
    THEN <<Message("Invalid chromosome '{}' in {}. Must be 1-22, X, or Y",
                   <<abnormality.chromosome, abnormality.raw>>)>>
    ELSE <<>>

\* Mutant: only gains have their chromosome checked.
validate_numerical_chromosome_gains_only(ast_, abnormality) ==
    IF abnormality.type # "+" THEN <<>>
    ELSE IF abnormality.chromosome \notin VALID_CHROMOSOMES
    THEN <<Message("Invalid chromosome '{}' in {}. Must be 1-22, X, or Y",
                   <<abnormality.chromosome, abnormality.raw>>)>>
    ELSE <<>>

validate_numerical_chromosome(ast_, abnormality) ==
    IF abnormality.type \notin {"+", "-"} THEN <<>>
    ELSE IF abnormality.chromosome \notin VALID_CHROMOSOMES
    THEN <<Message("Invalid chromosome '{}' in {}. Must be 1-22, X, or Y",
                   <<abnormality.chromosome, abnormality.raw>>)>>
    ELSE <<>>

validate_breakpoint_arm(ast_, abnormality) ==
    IF abnormality.type \in {"+", "-", "unknown"} THEN <<>>
    ELSE LET bad == SelectSeq(abnormality.breakpoints,
                              LAMBDA bp : bp.arm \notin {"p", "q"})
         IN [i \in 1..Len(bad) |->
                Message("Invalid breakpoint arm '{}' in {}. Must be 'p' or 'q'",
                        <<<<bad[i].arm>>, abnormality.raw>>)]

validate_inversion_two_breakpoints(ast_, abnormality) ==
    LET bp_count == Len(abnormality.breakpoints) IN
    IF abnormality.type # "inv" THEN <<>>
    ELSE IF bp_count # 2
    THEN <<Message("Inversion requires two breakpoints, found {} in {}",
                   <<str(bp_count), abnormality.raw>>)>>
    ELSE <<>>

\* Mutant: only a translocation with too few breakpoints is reported.
validate_translocation_breakpoint_count_too_few(ast_, abnormality) ==
    LET chr_count == Len(split(abnormality.chromosome, ";"))
        bp_count == Len(abnormality.breakpoints)
    IN IF abnormality.type # "t" THEN <<>>
       ELSE IF chr_count > bp_count
       THEN <<Message("Translocation has {} chromosomes but {} breakpoints in {}",
                      <<str(chr_count), str(bp_count), abnormality.raw>>)>>
       ELSE <<>>

validate_translocation_breakpoint_count(ast_, abnormality) ==
    LET chr_count == Len(split(abnormality.chromosome, ";"))
        bp_count == Len(abnormality.breakpoints)
    IN IF abnormality.type # "t" THEN <<>>
       ELSE IF chr_count # bp_count
       THEN <<Message("Translocation has {} chromosomes but {} breakpoints in {}",
                      <<str(chr_count), str(bp_count), abnormality.raw>>)>>
       ELSE <<>>

\* Mutant: two breakpoints are accepted whatever their arms are.
validate_deletion_breakpoints_any_arm(ast_, abnormality) ==
    LET bp_count == Len(abnormality.breakpoints) IN
    IF abnormality.type # "del" THEN <<>>
    ELSE IF bp_count \notin {1, 2}
    THEN <<Message("Deletion requires one or two breakpoints, found {} in {}",
                   <<str(bp_count), abnormality.raw>>)>>
    ELSE <<>>

validate_deletion_breakpoints(ast_, abnormality) ==
    LET bp_count == Len(abnormality.breakpoints) IN
    IF abnormality.type # "del" THEN <<>>
    ELSE IF bp_count \notin {1, 2}
    THEN <<Message("Deletion requires one or two breakpoints, found {} in {}",
                   <<str(bp_count), abnormality.raw>>)>>
    ELSE IF /\ bp_count = 2
            /\ abnormality.breakpoints[1].arm # abnormality.breakpoints[2].arm
    THEN <<Message("Interstitial deletion breakpoints must be on same arm, found {} and {} in {}",
                   <<<<abnormality.breakpoints[1].arm>>,
                     <<abnormality.breakpoints[2].arm>>, abnormality.raw>>)>>
    ELSE <<>>

validate_duplication_breakpoints(ast_, abnormality) ==
    LET bp_count == Len(abnormality.breakpoints) IN
    IF abnormality.type # "dup" THEN <<>>
    ELSE IF bp_count \notin {1, 2}
    THEN <<Message("Duplication requires one or two breakpoints, found {} in {}",
                   <<str(bp_count), abnormality.raw>>)>>
    ELSE IF /\ bp_count = 2
            /\ abnormality.breakpoints[1].arm # abnormality.breakpoints[2].arm
    THEN <<Message("Duplication breakpoints must be on same arm, found {} and {} in {}",
                   <<<<abnormality.breakpoints[1].arm>>,
                     <<abnormality.breakpoints[2].arm>>, abnormality.raw>>)>>
    ELSE <<>>

\* Mutant: a ring without breakpoints passes.
validate_ring_chromosome_breakpoints_simple_allowed(ast_, abnormality) ==
    LET bp_count == Len(abnormality.breakpoints) IN
    IF abnormality.type # "r" THEN <<>>
    ELSE IF bp_count = 0 THEN <<>>
    ELSE IF bp_count # 2
    THEN <<Message("Ring chromosome requires two breakpoints, found {} in {}",
                   <<str(bp_count), abnormality.raw>>)>>
    ELSE IF abnormality.breakpoints[1].arm = abnormality.breakpoints[2].arm
    THEN <<Message("Ring chromosome breakpoints must be on different arms, found {} and {} in {}",
                   <<<<abnormality.breakpoints[1].arm>>,
                     <<abnormality.breakpoints[2].arm>>, abnormality.raw>>)>>
    ELSE <<>>

\* Mutant: two breakpoints are enough, whatever their arms are.
validate_ring_chromosome_breakpoints_count_only(ast_, abnormality) ==
    LET bp_count == Len(abnormality.breakpoints) IN
    IF abnormality.type # "r" THEN <<>>
    ELSE IF bp_count # 2
    THEN <<Message("Ring chromosome requires two breakpoints, found {} in {}",
                   <<str(bp_count), abnormality.raw>>)>>
    ELSE <<>>

validate_ring_chromosome_breakpoints(ast_, abnormality) ==
    LET bp_count == Len(abnormality.breakpoints) IN
    IF abnormality.type # "r" THEN <<>>
    ELSE IF bp_count # 2
    THEN <<Message("Ring chromosome requires two breakpoints, found {} in {}",
                   <<str(bp_count), abnormality.raw>>)>>
    ELSE IF abnormality.breakpoints[1].arm = abnormality.breakpoints[2].arm
    THEN <<Message("Ring chromosome breakpoints must be on different arms, found {} and {} in {}",
                   <<<<abnormality.breakpoints[1].arm>>,
                     <<abnormality.breakpoints[2].arm>>, abnormality.raw>>)>>
    ELSE <<>>

validate_isochromosome_breakpoints(ast_, abnormality) ==
    LET bp_count == Len(abnormality.breakpoints) IN
    IF abnormality.type # "i" THEN <<>>
    ELSE IF bp_count # 1
    THEN <<Message("Isochromosome requires one breakpoint, found {} in {}",
                   <<str(bp_count), abnormality.raw>>)>>
    ELSE <<>>

validate_triplication_breakpoints(ast_, abnormality) ==
    LET bp_count == Len(abnormality.breakpoints) IN
    IF abnormality.type # "trp" THEN <<>>
    ELSE IF bp_count # 2
    THEN <<Message("Triplication requires two breakpoints, found {} in {}",
                   <<str(bp_count), abnormality.raw>>)>>
    ELSE IF abnormality.breakpoints[1].arm # abnormality.breakpoints[2].arm
    THEN <<Message("Triplication breakpoints must be on same arm, found {} and {} in {}",
                   <<<<abnormality.breakpoints[1].arm>>,
                     <<abnormality.breakpoints[2].arm>>, abnormality.raw>>)>>
    ELSE <<>>

validate_quadruplication_breakpoints(ast_, abnormality) ==
    LET bp_count == Len(abnormality.breakpoints) IN
    IF abnormality.type # "qdp" THEN <<>>
    ELSE IF bp_count # 2
    THEN <<Message("Quadruplication requires two breakpoints, found {} in {}",
                   <<str(bp_count), abnormality.raw>>)>>
    ELSE IF abnormality.breakpoints[1].arm # abnormality.breakpoints[2].arm
    THEN <<Message("Quadruplication breakpoints must be on same arm, found {} and {} in {}",
                   <<<<abnormality.breakpoints[1].arm>>,
                     <<abnormality.breakpoints[2].arm>>, abnormality.raw>>)>>
    ELSE <<>>

validate_dicentric_breakpoints(ast_, abnormality) ==
    LET chr_count == Len(split(abnormality.chromosome, ";"))
        bp_count == Len(abnormality.breakpoints)
    IN IF abnormality.type # "dic" THEN <<>>
       ELSE IF chr_count # bp_count
       THEN <<Message("Dicentric has {} chromosomes but {} breakpoints in {}",
                      <<str(chr_count), str(bp_count), abnormality.raw>>)>>
       ELSE <<>>

validate_isodicentric_breakpoints(ast_, abnormality) ==
    LET bp_count == Len(abnormality.breakpoints) IN
    IF abnormality.type # "idic" THEN <<>>
    ELSE IF bp_count # 1
    THEN <<Message("Isodicentric requires one breakpoint, found {} in {}",
                   <<str(bp_count), abnormality.raw>>)>>
    ELSE <<>>

validate_robertsonian_breakpoints(ast_, abnormality) ==
    LET chr_count == Len(split(abnormality.chromosome, ";"))
        bp_count == Len(abnormality.breakpoints)
    IN IF abnormality.type # "rob" THEN <<>>
       ELSE IF chr_count # bp_count
       THEN <<Message("Robertsonian translocation has {} chromosomes but {} breakpoints in {}",
                      <<str(chr_count), str(bp_count), abnormality.raw>>)>>
       ELSE <<>>

validate_add_breakpoints(ast_, abnormality) ==
    LET bp_count == Len(abnormality.breakpoints) IN
    IF abnormality.type # "add" THEN <<>>
    ELSE IF bp_count # 1
    THEN <<Message("Add requires one breakpoint, found {} in {}",
                   <<str(bp_count), abnormality.raw>>)>>
    ELSE <<>>

validate_fra_breakpoints(ast_, abnormality) ==
    LET bp_count == Len(abnormality.breakpoints) IN
    IF abnormality.type # "fra" THEN <<>>
    ELSE IF bp_count # 1
    THEN <<Message("Fragile site requires one breakpoint, found {} in {}",
                   <<str(bp_count), abnormality.raw>>)>>
    ELSE <<>>

validate_ins_breakpoints(ast_, abnormality) ==
    LET bp_count == Len(abnormality.breakpoints) IN
    IF abnormality.type # "ins" THEN <<>>
    ELSE IF bp_count # 3
    THEN <<Message("Insertion requires three breakpoints, found {} in {}",
                   <<str(bp_count), abnormality.raw>>)>>
    ELSE <<>>

validate_dmin_breakpoints(ast_, abnormality) ==
    LET bp_count == Len(abnormality.breakpoints) IN
    IF abnormality.type # "dmin" THEN <<>>
    ELSE IF bp_count # 0
    THEN <<Message("Double minutes should have no breakpoints, found {} in {}",
                   <<str(bp_count), abnormality.raw>>)>>
    ELSE <<>>

validate_hsr_breakpoints(ast_, abnormality) ==
    LET bp_count == Len(abnormality.breakpoints) IN
    IF abnormality.type # "hsr" THEN <<>>
    ELSE IF bp_count > 1
    THEN <<Message("HSR should have zero or one breakpoint, found {} in {}",
                   <<str(bp_count), abnormality.raw>>)>>
    ELSE <<>>

validate_mar_breakpoints(ast_, abnormality) ==
    LET bp_count == Len(abnormality.breakpoints) IN
    IF abnormality.type # "mar" THEN <<>>
    ELSE IF bp_count # 0
    THEN <<Message("Marker chromosome should have no breakpoints, found {} in {}",
                   <<str(bp_count), abnormality.raw>>)>>
    ELSE <<>>

validate_pseudodicentric_breakpoints(ast_, abnormality) ==
    LET chr_count == Len(split(abnormality.chromosome, ";"))
        bp_count == Len(abnormality.breakpoints)
    IN IF abnormality.type # "psu dic" THEN <<>>
       ELSE IF chr_count # bp_count
       THEN <<Message("Pseudodicentric has {} chromosomes but {} breakpoints in {}",
                      <<str(chr_count), str(bp_count), abnormality.raw>>)>>
       ELSE <<>>

validate_acentric_breakpoints(ast_, abnormality) ==
    LET bp_count == Len(abnormality.breakpoints) IN
    IF abnormality.type # "ace" THEN <<>>
    ELSE IF bp_count \notin {1, 2}
    THEN <<Message("Acentric fragment requires 1-2 breakpoints, found {} in {}",
                   <<str(bp_count), abnormality.raw>>)>>
    ELSE <<>>

validate_telomeric_association_breakpoints(ast_, abnormality) ==
    LET chr_count == Len(split(abnormality.chromosome, ";"))
        bp_count == Len(abnormality.breakpoints)
    IN IF abnormality.type # "tas" THEN <<>>
       ELSE IF chr_count # bp_count
       THEN <<Message("Telomeric association has {} chromosomes but {} breakpoints in {}",
                      <<str(chr_count), str(bp_count), abnormality.raw>>)>>
       ELSE <<>>

validate_fission_breakpoints(ast_, abnormality) ==
    LET bp_count == Len(abnormality.breakpoints) IN
    IF abnormality.type # "fis" THEN <<>>
    ELSE IF bp_count # 1
    THEN <<Message("Fission requires one breakpoint, found {} in {}",
                   <<str(bp_count), abnormality.raw>>)>>
    ELSE <<>>

validate_neocentromere_breakpoints(ast_, abnormality) ==
    LET bp_count == Len(abnormality.breakpoints) IN
    IF abnormality.type # "neo" THEN <<>>
    ELSE IF bp_count # 1
    THEN <<Message("Neocentromere requires one breakpoint, found {} in {}",
                   <<str(bp_count), abnormality.raw>>)>>
    ELSE <<>>

validate_incomplete_breakpoints(ast_, abnormality) ==
    LET bp_count == Len(abnormality.breakpoints) IN
    IF abnormality.type # "inc" THEN <<>>
    ELSE IF bp_count # 0
    THEN <<Message("Incomplete karyotype marker should have no breakpoints, found {} in {}",
                   <<str(bp_count), abnormality.raw>>)>>
    ELSE <<>>


\* The ids of the rules, in the order of the exported list.
ALL_ABNORMALITY_RULES ==
    <<"ABN_NUM_CHR_VALID", "ABN_BP_ARM_VALID", "ABN_INV_TWO_BP",
      "ABN_TRANS_BP_COUNT", "ABN_DEL_BP", "ABN_DUP_BP", "ABN_RING_BP",
      "ABN_ISO_BP", "ABN_TRP_BP", "ABN_QDP_BP", "ABN_DIC_BP", "ABN_IDIC_BP",
      "ABN_ROB_BP", "ABN_ADD_BP", "ABN_FRA_BP", "ABN_INS_BP", "ABN_DMIN_BP",
      "ABN_HSR_BP", "ABN_MAR_BP", "ABN_PSU_DIC_BP", "ABN_ACE_BP",
      "ABN_TAS_BP", "ABN_FIS_BP", "ABN_NEO_BP", "ABN_INC_BP">>

(***************************************************************************)
(* rules/base.py: Rule.validate of the rule with the given id              *)
(***************************************************************************)
Rule_validate(id, ast_, target) ==
    CASE id = "CHR_COUNT_NUMERIC" -> validate_chromosome_count_numeric(ast_, target)
      [] id = "CHR_COUNT_RANGE" -> validate_chromosome_count_range(ast_, target)
      [] id = "SEX_CHR_VALID" -> validate_sex_chromosomes_valid(ast_, target)
      [] id = "SEX_CHR_COHERENCE" -> validate_sex_chromosomes_coherence(ast_, target)
      [] id = "ABN_NUM_CHR_VALID" -> validate_numerical_chromosome(ast_, target)
      [] id = "ABN_BP_ARM_VALID" -> validate_breakpoint_arm(ast_, target)
      [] id = "ABN_INV_TWO_BP" -> validate_inversion_two_breakpoints(ast_, target)
      [] id = "ABN_TRANS_BP_COUNT" -> validate_translocation_breakpoint_count(ast_, target)
      [] id = "ABN_DEL_BP" -> validate_deletion_breakpoints(ast_, target)
      [] id = "ABN_DUP_BP" -> validate_duplication_breakpoints(ast_, target)
      [] id = "ABN_RING_BP" -> validate_ring_chromosome_breakpoints(ast_, target)
      [] id = "ABN_ISO_BP" -> validate_isochromosome_breakpoints(ast_, target)
      [] id = "ABN_TRP_BP" -> validate_triplication_breakpoints(ast_, target)
      [] id = "ABN_QDP_BP" -> validate_quadruplication_breakpoints(ast_, target)
      [] id = "ABN_DIC_BP" -> validate_dicentric_breakpoints(ast_, target)
      [] id = "ABN_IDIC_BP" -> validate_isodicentric_breakpoints(ast_, target)
      [] id = "ABN_ROB_BP" -> validate_robertsonian_breakpoints(ast_, target)
      [] id = "ABN_ADD_BP" -> validate_add_breakpoints(ast_, target)
      [] id = "ABN_FRA_BP" -> validate_fra_breakpoints(ast_, target)
      [] id = "ABN_INS_BP" -> validate_ins_breakpoints(ast_, target)
      [] id = "ABN_DMIN_BP" -> validate_dmin_breakpoints(ast_, target)
      [] id = "ABN_HSR_BP" -> validate_hsr_breakpoints(ast_, target)
      [] id = "ABN_MAR_BP" -> validate_mar_breakpoints(ast_, target)
      [] id = "ABN_PSU_DIC_BP" -> validate_pseudodicentric_breakpoints(ast_, target)
      [] id = "ABN_ACE_BP" -> validate_acentric_breakpoints(ast_, target)
      [] id = "ABN_TAS_BP" -> validate_telomeric_association_breakpoints(ast_, target)
      [] id = "ABN_FIS_BP" -> validate_fission_breakpoints(ast_, target)
      [] id = "ABN_NEO_BP" -> validate_neocentromere_breakpoints(ast_, target)
      [] id = "ABN_INC_BP" -> validate_incomplete_breakpoints(ast_, target)

(***************************************************************************)
(* engine.py and main.py: the pieces of RuleEngine.validate and            *)
(* validate_karyotype                                                      *)
(***************************************************************************)
\* Mutant: once an error is collected, later rules add nothing.
extend_short_circuit(all, errs) == IF all # <<>> THEN all ELSE all \o errs

\* all_errors.extend(errors)
extend(all, errs) == all \o errs

\* Mutant: the AST is returned only with an empty error list.
EngineResult_valid_only(all, tree) ==
    ValidationResult(Len(all) = 0, all, IF Len(all) = 0 THEN tree ELSE None)

\* The ValidationResult RuleEngine.validate returns.
EngineResult(all, tree) == ValidationResult(Len(all) = 0, all, tree)

\* The ValidationResult of the except branch of validate_karyotype;
\* e is the message of the ParseError.
ParseErrorResult(e) == ValidationResult(FALSE, <<e>>, None)

(***************************************************************************)
(* The karyotypes the calls are made with                                  *)
(***************************************************************************)
MaxSexLen == 3
MaxAbnormalities == 2
MaxCellLines == 2

RECURSIVE join(_, _)
join(parts, c) ==
    IF Len(parts) = 1 THEN parts[1]
    ELSE parts[1] \o <<c>> \o join(Tail(parts), c)

\* The sequences of 1 to n elements of S.
UpTo(S, lo, n) == UNION {[1..m -> S] : m \in lo..n}

\* Chromosome-count fields.
CountFields ==
    {
      \* x~y
      <<"x", "~", "y">>,
      \*  ~4 
      <<" ", "~", "4", " ">>,
      <<"4", "6">>,                               \* 46
      <<"4", "5">>,                               \* 45
      <<"4", "7">>,                               \* 47
      <<"2", "3">>,                               \* 23
      <<"2", "2">>,                               \* 22
      <<"9", "2">>,                               \* 92
      <<"9", "3">>,                               \* 93
      <<"0">>,                                    \* 0
      <<"0", "4", "6">>,                          \* 046
      <<" ", "4", "6", " ">>,                     \*  46 
      <<"4", "5", "~", "4", "8">>,                \* 45~48
      <<"~">>,                                    \* ~
      <<"f", "o", "o">>,                          \* foo
      <<>>,                                       \* (empty)
      <<"4", SuperscriptTwo>>,                    \* 4(superscript 2)
      <<"4", " ", "6">>                           \* 4 6
    }

\* Sex-chromosome fields besides the strings over X, Y, U.
OtherSexFields ==
    {
      <<>>,                                       \* (empty)
      <<"Z">>,                                    \* Z
      <<"x", "x">>,                               \* xx
      <<" ", "X", "X", " ">>,                     \*  XX 
      <<"X", "Z">>                                \* XZ
    }

\* Abnormality fields.
AbnormalityTokens ==
    {
      \* garbage
      <<"g", "a", "r", "b", "a", "g", "e">>,
      \* ?t(9;22)(q34;q11.2)
      <<"?", "t", "(", "9", ";", "2", "2", ")", "(", "q", "3", "4", ";",
        "q", "1", "1", ".", "2", ")">>,
      \* i(17q)dn
      <<"i", "(", "1", "7", "q", ")", "d", "n">>,
      \* +2marpat
      <<"+", "2", "m", "a", "r", "p", "a", "t">>,
      \* dminpat
      <<"d", "m", "i", "n", "p", "a", "t">>,
      \* ?hsr
      <<"?", "h", "s", "r">>,
      \* der(22)t(9;22)(q34;q11)mat
      <<"d", "e", "r", "(", "2", "2", ")", "t", "(", "9", ";", "2", "2",
        ")", "(", "q", "3", "4", ";", "q", "1", "1", ")", "m", "a", "t">>,
      \* hsr(1)(p22)dn
      <<"h", "s", "r", "(", "1", ")", "(", "p", "2", "2", ")", "d", "n">>,
      \* ?r(1)(p36q42)
      <<"?", "r", "(", "1", ")", "(", "p", "3", "6", "q", "4", "2", ")">>,
      \* +21matmat
      <<"+", "2", "1", "m", "a", "t", "m", "a", "t">>,
      \* r(1)mat
      <<"r", "(", "1", ")", "m", "a", "t">>,
      <<"+", "2", "1">>,                          \* +21
      <<"-", "7">>,                               \* -7
      <<"+", "X">>,                               \* +X
      <<"-", "Y">>,                               \* -Y
      <<"+", "0">>,                               \* +0
      <<"+", "2", "3">>,                          \* +23
      <<"+", "9", "9">>,                          \* +99
      <<"?", "+", "2", "1">>,                     \* ?+21
      <<"+", "2", "1", "m", "a", "t">>,           \* +21mat
      <<"+", "2", "1", "p", "a", "t">>,           \* +21pat
      <<"-", "7", "d", "n">>,                     \* -7dn
      <<"+", "2", "1", "\n", "m", "a", "t">>,     \* +21\nmat
      \* del(5)(q13)
      <<"d", "e", "l", "(", "5", ")", "(", "q", "1", "3", ")">>,
      \* del(5)(q13q33)
      <<"d", "e", "l", "(", "5", ")", "(", "q", "1", "3", "q", "3", "3",
        ")">>,
      \* del(5)(p13q33)
      <<"d", "e", "l", "(", "5", ")", "(", "p", "1", "3", "q", "3", "3",
        ")">>,
      <<"d", "e", "l", "(", "5", ")", "(", "q", ")">>, \* del(5)(q)
      <<"d", "e", "l", "(", "5", ")", "q", "1", "3">>, \* del(5)q13
      \* del(0)(q13)
      <<"d", "e", "l", "(", "0", ")", "(", "q", "1", "3", ")">>,
      \* del(5)(q13.2)
      <<"d", "e", "l", "(", "5", ")", "(", "q", "1", "3", ".", "2", ")">>,
      <<"d", "e", "l", "(", "5", ")", "(", "q", "1", ")">>, \* del(5)(q1)
      \* ?del(5)(q13)dn
      <<"?", "d", "e", "l", "(", "5", ")", "(", "q", "1", "3", ")", "d",
        "n">>,
      \* dup(1)(q21q31)
      <<"d", "u", "p", "(", "1", ")", "(", "q", "2", "1", "q", "3", "1",
        ")">>,
      \* dup(1)(p21q31)
      <<"d", "u", "p", "(", "1", ")", "(", "p", "2", "1", "q", "3", "1",
        ")">>,
      \* dup(1)(q21)
      <<"d", "u", "p", "(", "1", ")", "(", "q", "2", "1", ")">>,
      <<"d", "u", "p", "(", "1", ")", "(", "x", ")">>, \* dup(1)(x)
      \* inv(9)(p12q13)
      <<"i", "n", "v", "(", "9", ")", "(", "p", "1", "2", "q", "1", "3",
        ")">>,
      \* inv(9)(p12)
      <<"i", "n", "v", "(", "9", ")", "(", "p", "1", "2", ")">>,
      <<"i", "n", "v", "(", "9", ")">>,           \* inv(9)
      \* t(9;22)(q34;q11.2)
      <<"t", "(", "9", ";", "2", "2", ")", "(", "q", "3", "4", ";", "q",
        "1", "1", ".", "2", ")">>,
      \* t(9;22)(q34)
      <<"t", "(", "9", ";", "2", "2", ")", "(", "q", "3", "4", ")">>,
      \* t(9)(q34;q11)
      <<"t", "(", "9", ")", "(", "q", "3", "4", ";", "q", "1", "1", ")">>,
      \* t(1;3;5)(p32;q21;q31)
      <<"t", "(", "1", ";", "3", ";", "5", ")", "(", "p", "3", "2", ";",
        "q", "2", "1", ";", "q", "3", "1", ")">>,
      \* t(a;b)(q34;q11)
      <<"t", "(", "a", ";", "b", ")", "(", "q", "3", "4", ";", "q", "1",
        "1", ")">>,
      <<"t", "(", "9", ";", "2", "2", ")">>,      \* t(9;22)
      \* t(9;22)(q34; q11)
      <<"t", "(", "9", ";", "2", "2", ")", "(", "q", "3", "4", ";", " ",
        "q", "1", "1", ")">>,
      \* ins(2)(p13q21q31)
      <<"i", "n", "s", "(", "2", ")", "(", "p", "1", "3", "q", "2", "1",
        "q", "3", "1", ")">>,
      \* ins(5;2)(p14;q21q31)
      <<"i", "n", "s", "(", "5", ";", "2", ")", "(", "p", "1", "4", ";",
        "q", "2", "1", "q", "3", "1", ")">>,
      \* ins(5;2)(p14;q21)
      <<"i", "n", "s", "(", "5", ";", "2", ")", "(", "p", "1", "4", ";",
        "q", "2", "1", ")">>,
      \* ins(2)(p13q21)
      <<"i", "n", "s", "(", "2", ")", "(", "p", "1", "3", "q", "2", "1",
        ")">>,
      \* ins(5;2)(p14;q21q31;q1)
      <<"i", "n", "s", "(", "5", ";", "2", ")", "(", "p", "1", "4", ";",
        "q", "2", "1", "q", "3", "1", ";", "q", "1", ")">>,
      \* ins(99)(p13q21q31)
      <<"i", "n", "s", "(", "9", "9", ")", "(", "p", "1", "3", "q", "2",
        "1", "q", "3", "1", ")">>,
      <<"i", "(", "1", "7", "q", ")">>,           \* i(17q)
      <<"i", "(", "1", "7", ")", "(", "q", "1", "0", ")">>, \* i(17)(q10)
      <<"i", "(", "1", "7", ")">>,                \* i(17)
      \* i(17)(q10q11)
      <<"i", "(", "1", "7", ")", "(", "q", "1", "0", "q", "1", "1", ")">>,
      <<"r", "(", "1", ")">>,                     \* r(1)
      \* r(1)(p36q42)
      <<"r", "(", "1", ")", "(", "p", "3", "6", "q", "4", "2", ")">>,
      \* r(1)(p36p42)
      <<"r", "(", "1", ")", "(", "p", "3", "6", "p", "4", "2", ")">>,
      <<"r", "(", "1", ")", "(", "p", "3", "6", ")">>, \* r(1)(p36)
      <<"r", "(", "x", ")">>,                     \* r(x)
      <<"+", "m", "a", "r">>,                     \* +mar
      <<"+", "2", "m", "a", "r">>,                \* +2mar
      <<"+", "m", "a", "r", "1">>,                \* +mar1
      \* der(22)t(9;22)(q34;q11)
      <<"d", "e", "r", "(", "2", "2", ")", "t", "(", "9", ";", "2", "2",
        ")", "(", "q", "3", "4", ";", "q", "1", "1", ")">>,
      <<"d", "e", "r", "(", "2", "2", ")">>,      \* der(22)
      <<"d", "m", "i", "n">>,                     \* dmin
      <<"h", "s", "r">>,                          \* hsr
      \* hsr(1)(p22)
      <<"h", "s", "r", "(", "1", ")", "(", "p", "2", "2", ")">>,
      <<"h", "s", "r", "(", "1", ")", "(", "p", ")">>, \* hsr(1)(p)
      <<"h", "s", "r", "(", "1", ")">>,           \* hsr(1)
      \* add(7)(p22)
      <<"a", "d", "d", "(", "7", ")", "(", "p", "2", "2", ")">>,
      <<"a", "d", "d", "(", "7", ")", "(", "p", ")">>, \* add(7)(p)
      <<"a", "d", "d", "(", "7", ")">>,           \* add(7)
      <<"x">>,                                    \* x
      <<"?">>,                                    \* ?
      <<"m", "a", "t">>,                          \* mat
      <<"2", "1">>,                               \* 21
      <<" ", "x", " ">>,                          \*  x (between spaces)
      <<"?", "x", "d", "n">>,                     \* ?xdn
      <<"d", "e", "l">>,                          \* del
      <<>>                                        \* (empty)
    }

\* The abnormality fields of the karyotypes with several of them.
FewTokens ==
    {
      \* del(5)(zz)
      <<"d", "e", "l", "(", "5", ")", "(", "z", "z", ")">>,
      <<" ">>,                                    \* (one space)
      <<"+", "2", "1">>,                          \* +21
      <<"+", "9", "9">>,                          \* +99
      \* del(5)(p13q33)
      <<"d", "e", "l", "(", "5", ")", "(", "p", "1", "3", "q", "3", "3",
        ")">>,
      <<"r", "(", "1", ")">>,                     \* r(1)
      <<"x">>,                                    \* x
      <<>>,                                       \* (empty)
      \* inv(9)(p12)
      <<"i", "n", "v", "(", "9", ")", "(", "p", "1", "2", ")">>
    }

\* Karyotypes without a comma.
UnseparatedTexts ==
    {
      <<>>,                                       \* (empty)
      <<" ">>,                                    \*  
      <<"\n">>,                                   \* \n
      <<" ", "\t", " ">>,                         \*  \t 
      <<"4", "6", "X", "X">>,                     \* 46XX
      <<"4", "6">>,                               \* 46
      <<"4", "6", " ", "X", "X">>,                \* 46 XX
      <<"4", "6", "/", "4", "7">>,                \* 46/47
      <<"/">>,                                    \* /
      <<"4", "6", ";", "X", "X">>,                \* 46;XX
      <<"4", "6", "X", "X", "[", "3", "]">>,      \* 46XX[3]
      <<"4", SuperscriptTwo>>,                    \* 4(superscript 2)
      <<"~">>,                                    \* ~
      <<" ", "4", "6", "X", "X", "\n">>           \*  46XX\n
    }

\* The cell-line segments the mosaic karyotypes are made of.
Segments ==
    {
      \* 4~,X[2]
      <<"4", "~", ",", "X", "[", "2", "]">>,
      \* 47,XX,,+21[4]
      <<"4", "7", ",", "X", "X", ",", ",", "+", "2", "1", "[", "4", "]">>,
      \* 46,XX,r(1)
      <<"4", "6", ",", "X", "X", ",", "r", "(", "1", ")">>,
      \* 45,X,?-7dn[2]
      <<"4", "5", ",", "X", ",", "?", "-", "7", "d", "n", "[", "2", "]">>,
      \* 47,XX,+21[10]
      <<"4", "7", ",", "X", "X", ",", "+", "2", "1", "[", "1", "0", "]">>,
      <<"4", "6", ",", "X", "X", "[", "2", "0", "]">>, \* 46,XX[20]
      <<"4", "6", ",", "X", "X">>,                \* 46,XX
      <<"4", "6", ",", "Y">>,                     \* 46,Y
      <<"4", "6">>,                               \* 46
      <<"f", "o", "o", ",", "X", "X">>,           \* foo,XX
      \* 46,XX,inv(9)(p12)
      <<"4", "6", ",", "X", "X", ",", "i", "n", "v", "(", "9", ")", "(",
        "p", "1", "2", ")">>,
      <<" ", "4", "5", ",", "X", "[", "3", "]", " ">>, \*  45,X[3] 
      <<"4", "6", ",", "X", "X", "[", "x", "]">>, \* 46,XX[x]
      <<"4", SuperscriptTwo, ",", "X", "X">>,     \* 4(superscript 2),XX
      <<>>                                        \* (empty)
    }


\* Every string over X, Y, U of 1 to MaxSexLen characters.
SexStrings == UpTo({"X", "Y", "U"}, 1, MaxSexLen)

\* count,sex
PlainKaryotypes ==
    {join(<<c, x>>, ",") : c \in CountFields,
                           x \in SexStrings \cup OtherSexFields}

\* count,sex,abnormality
OneAbnormalityKaryotypes ==
    {join(<<c, x, t>>, ",") :
        c \in {<<"4", "6">>, <<"4", "5">>, <<"9", "3">>},
        x \in {<<"X", "X">>, <<"X">>, <<"Y">>},
        t \in AbnormalityTokens}

\* 46,XX followed by 2 to MaxAbnormalities abnormality fields
SeveralAbnormalitiesKaryotypes ==
    {join(<<<<"4", "6">>, <<"X", "X">>>> \o ts, ",") :
        ts \in UpTo(FewTokens, 2, MaxAbnormalities)}

\* 2 to MaxCellLines segments separated by "/"
MosaicKaryotypes ==
    {join(segs, "/") : segs \in UpTo(Segments, 2, MaxCellLines)}

\* Karyotypes with more than one field that does not parse.
SeveralFailuresKaryotypes ==
    {
      \* foo,Z,inv(9)(p12)
      <<"f", "o", "o", ",", "Z", ",", "i", "n", "v", "(", "9", ")", "(",
        "p", "1", "2", ")">>,
      \* 46,Z,inv(9)(p12)
      <<"4", "6", ",", "Z", ",", "i", "n", "v", "(", "9", ")", "(", "p",
        "1", "2", ")">>,
      \* foo,XX,inv(9)(p12)
      <<"f", "o", "o", ",", "X", "X", ",", "i", "n", "v", "(", "9", ")",
        "(", "p", "1", "2", ")">>
    }

Karyotypes ==
    PlainKaryotypes \cup OneAbnormalityKaryotypes
        \cup SeveralAbnormalitiesKaryotypes \cup MosaicKaryotypes
        \cup UnseparatedTexts \cup SeveralFailuresKaryotypes

(***************************************************************************)
(* The state machine                                                       *)
(***************************************************************************)
\* main.py lines 11-14: the parser and the engine with the two catalogs
\* registered; no call is running.
Init ==
    /\ rules = ALL_CHROMOSOME_RULES
    /\ abnormality_rules = ALL_ABNORMALITY_RULES
    /\ pc = "idle"
    /\ karyotype = <<>>
    /\ ast = None
    /\ all_errors = <<>>
    /\ ri = 0
    /\ ai = 0
    /\ rule = ""
    /\ errors = <<>>
    /\ result = None
    /\ raised = None
    /\ cur = 1
    /\ frames = <<>>

\* validate_karyotype(k) is called.
Call(k) ==
    /\ pc = "idle"
    /\ pc' = "parse"
    /\ karyotype' = k
    /\ UNCHANGED <<cur, frames>>
    /\ UNCHANGED <<rules, abnormality_rules, ast, all_errors, ri, ai, rule,
                   errors, result, raised>>

\* ast = _parser.parse(karyotype), with the except branch: a ParseError
\* becomes the returned result, any other exception leaves the call.
Parsed(r) ==
    CASE r.tag = "ok" ->
           /\ ast' = Some(r.val)
           /\ pc' = "rules"
           /\ ri' = 1
           /\ UNCHANGED <<result, raised>>
      [] r.tag = "ParseError" ->
           /\ result' = Some(ParseErrorResult(r.msg))
           /\ pc' = "done"
           /\ UNCHANGED <<ast, ri, raised>>
      [] r.tag = "ValueError" ->
           /\ raised' = Some("ValueError")
           /\ pc' = "done"
           /\ UNCHANGED <<ast, ri, result>>

Parse ==
    /\ pc = "parse"
    /\ Parsed(parse(karyotype))
    /\ UNCHANGED <<cur, frames>>
    /\ UNCHANGED <<rules, abnormality_rules, karyotype, all_errors, ai, rule,
                   errors>>

\* One iteration of "for rule in self._rules".
ApplyRule ==
    /\ pc = "rules"
    /\ ri <= Len(rules)
    /\ rule' = rules[ri]
    /\ errors' = Rule_validate(rules[ri], ast[1], ast[1])
    /\ all_errors' = extend(all_errors, errors')
    /\ ri' = ri + 1
    /\ UNCHANGED <<cur, frames>>
    /\ UNCHANGED <<rules, abnormality_rules, pc, karyotype, ast, ai, result,
                   raised>>

\* The first loop is over; "for abnormality in ast.abnormalities" starts.
EndRules ==
    /\ pc = "rules"
    /\ ri > Len(rules)
    /\ pc' = "abnormality_rules"
    /\ ai' = 1
    /\ ri' = 1
    /\ UNCHANGED <<cur, frames>>
    /\ UNCHANGED <<rules, abnormality_rules, karyotype, ast, all_errors,
                   rule, errors, result, raised>>

\* One iteration of "for rule in self._abnormality_rules".
ApplyAbnormalityRule ==
    /\ pc = "abnormality_rules"
    /\ ai <= Len(ast[1].abnormalities)
    /\ ri <= Len(abnormality_rules)
    /\ rule' = abnormality_rules[ri]
    /\ errors' = Rule_validate(abnormality_rules[ri], ast[1],
                               ast[1].abnormalities[ai])
    /\ all_errors' = extend(all_errors, errors')
    /\ ri' = ri + 1
    /\ UNCHANGED <<cur, frames>>
    /\ UNCHANGED <<rules, abnormality_rules, pc, karyotype, ast, ai, result,
                   raised>>

\* The inner loop is over for this abnormality: on to the next one.
NextAbnormality ==
    /\ pc = "abnormality_rules"
    /\ ai <= Len(ast[1].abnormalities)
    /\ ri > Len(abnormality_rules)
    /\ ai' = ai + 1
    /\ ri' = 1
    /\ UNCHANGED <<cur, frames>>
    /\ UNCHANGED <<rules, abnormality_rules, pc, karyotype, ast, all_errors,
                   rule, errors, result, raised>>

\* Mutant: RuleEngine.validate uses up the AST-level catalog.
Return_clearing_rules ==
    /\ pc = "abnormality_rules"
    /\ ai > Len(ast[1].abnormalities)
    /\ result' = Some(EngineResult(all_errors, ast))
    /\ pc' = "done"
    /\ rules' = <<>>
    /\ UNCHANGED <<cur, frames>>
    /\ UNCHANGED <<abnormality_rules, karyotype, ast, all_errors, ri, ai,
                   rule, errors, raised>>

\* Both loops are over: RuleEngine.validate returns, and validate_karyotype
\* returns what it returned.
Return ==
    /\ pc = "abnormality_rules"
    /\ ai > Len(ast[1].abnormalities)
    /\ result' = Some(EngineResult(all_errors, ast))
    /\ pc' = "done"
    /\ UNCHANGED <<cur, frames>>
    /\ UNCHANGED <<rules, abnormality_rules, karyotype, ast, all_errors, ri,
                   ai, rule, errors, raised>>

\* The caller is done with the outcome; the frame of the call is gone.
Discard ==
    /\ pc = "done"
    /\ pc' = "idle"
    /\ karyotype' = <<>>
    /\ ast' = None
    /\ all_errors' = <<>>
    /\ ri' = 0
    /\ ai' = 0
    /\ rule' = ""
    /\ errors' = <<>>
    /\ result' = None
    /\ raised' = None
    /\ UNCHANGED <<cur, frames>>
    /\ UNCHANGED <<rules, abnormality_rules>>

Next ==
    \/ \E k \in Karyotypes : Call(k)
    \/ Parse
    \/ ApplyRule
    \/ EndRules
    \/ ApplyAbnormalityRule
    \/ NextAbnormality
    \/ Return
    \/ Discard

Spec == Init /\ [][Next]_vars

(***************************************************************************)
(* Properties                                                              *)
(***************************************************************************)
\* The call has returned a ValidationResult.
Returned == pc = "done" /\ result # None

\* "", or nothing but whitespace.
AllWhitespace(text) == \A i \in 1..Len(text) : text[i] \in Whitespace

EmptyMessage == Message("Karyotype string is empty", <<>>)

CommaMessage ==
    Message("Missing comma separator between chromosome count and sex chromosomes",
            <<>>)

\* The "/"-separated segments of a karyotype, each stripped; the whole
\* stripped text when it holds no "/".
IsMosaic(text) == Contains(strip(text), "/")

SegmentTexts(text) ==
    IF IsMosaic(text) THEN StripAll(split(strip(text), "/"))
    ELSE <<strip(text)>>

\* What the parser makes of segment i taken alone.
SegmentOutcome(text, i) ==
    parse_single_karyotype(SegmentTexts(text)[i], IsMosaic(text))

\* Some segment, taken alone, is rejected with a ParseError.
SomeSegmentFails(text) ==
    \E i \in 1..Len(SegmentTexts(text)) :
        SegmentOutcome(text, i).tag = "ParseError"

\* The message of the first segment that does not parse.
FirstFailureMessage(text) ==
    LET i == CHOOSE j \in 1..Len(SegmentTexts(text)) :
                 /\ SegmentOutcome(text, j).tag # "ok"
                 /\ \A h \in 1..(j - 1) : SegmentOutcome(text, h).tag = "ok"
    IN SegmentOutcome(text, i).msg

\* C1: whenever the parser fails on the input (the input is blank, or a
\* segment of it is rejected, and no other exception ended the call), the
\* returned result has valid = false, exactly one error, the parse message,
\* and parsed = null: nothing of what was parsed before the failure, cell
\* lines of a mosaic included, is returned.
C1_ParseFailureResult ==
    (/\ pc = "done"
     /\ raised = None
     /\ AllWhitespace(karyotype) \/ SomeSegmentFails(karyotype))
    => /\ result # None
       /\ result[1].valid = FALSE
       /\ Len(result[1].errors) = 1
       /\ result[1].errors[1] =
              (IF AllWhitespace(karyotype) THEN EmptyMessage
               ELSE FirstFailureMessage(karyotype))
       /\ result[1].parsed = None
       /\ ast = None

\* A mosaic whose first segment parses and whose second does not has been
\* answered with parsed = null.
C1_Witness ==
    /\ Returned
    /\ Len(SegmentTexts(karyotype)) >= 2
    /\ SegmentOutcome(karyotype, 1).tag = "ok"
    /\ SegmentOutcome(karyotype, 2).tag = "ParseError"
    /\ result[1].parsed = None
    /\ Len(result[1].errors) = 1

\* C2: for every input string validate_karyotype returns a ValidationResult;
\* no exception escapes the call.
C2_AlwaysReturns == pc = "done" => (raised = None /\ result # None)

\* C3: in every returned ValidationResult valid is true exactly when errors
\* is empty, and when parsing succeeded parsed is the parsed AST, errors or
\* not.
C3_ValidIffNoErrors ==
    result # None =>
        /\ result[1].valid <=> (result[1].errors = <<>>)
        /\ parse(karyotype).tag = "ok" =>
               /\ ast = Some(parse(karyotype).val)
               /\ result[1].parsed = ast

\* A result with errors that still carries the AST.
C3_Witness ==
    /\ Returned
    /\ result[1].errors # <<>>
    /\ ~result[1].valid
    /\ result[1].parsed # None

RECURSIVE ConcatAll(_)
ConcatAll(seqs) ==
    IF seqs = <<>> THEN <<>> ELSE Head(seqs) \o ConcatAll(Tail(seqs))

\* The messages of every rule of a catalog applied to (tree, target).
CatalogMessages(catalog, tree, target) ==
    ConcatAll([i \in 1..Len(catalog) |->
                  Rule_validate(catalog[i], tree, target)])

\* C4: the errors RuleEngine.validate returns are the messages of every
\* AST-level rule on (ast, ast) in catalog order, followed by, for each
\* abnormality in order, the messages of every abnormality-level rule on
\* (ast, abnormality) in catalog order; no rule is skipped.
C4_ErrorsAreTheConcatenation ==
    (Returned /\ ast # None) =>
        result[1].errors =
            CatalogMessages(ALL_CHROMOSOME_RULES, ast[1], ast[1]) \o
            ConcatAll([j \in 1..Len(ast[1].abnormalities) |->
                          CatalogMessages(ALL_ABNORMALITY_RULES, ast[1],
                                          ast[1].abnormalities[j])])

\* Errors of AST-level rules and of an abnormality-level rule in one result.
C4_Witness ==
    /\ Returned
    /\ ast # None
    /\ Len(CatalogMessages(ALL_CHROMOSOME_RULES, ast[1], ast[1])) >= 2
    /\ Len(ast[1].abnormalities) >= 1
    /\ Len(result[1].errors) >=
           Len(CatalogMessages(ALL_CHROMOSOME_RULES, ast[1], ast[1])) + 1

\* The result is the one error about the missing comma.
IsCommaError ==
    /\ result # None
    /\ result[1].valid = FALSE
    /\ result[1].errors = <<CommaMessage>>

C6_BlankIsEmptyError ==
    (pc = "done" /\ AllWhitespace(karyotype)) =>
        result = Some(ValidationResult(FALSE, <<EmptyMessage>>, None))

\* A non-empty input of whitespace only rejected as empty.
C6_Witness ==
    /\ pc = "done"
    /\ karyotype # <<>>
    /\ AllWhitespace(karyotype)
    /\ result # None
    /\ result[1].errors = <<EmptyMessage>>

\* The coherence rule was the last rule applied; errors is what it returned.
CoherenceApplied == pc = "rules" /\ rule = "SEX_CHR_COHERENCE"

\* A numeric count, sex chromosomes other than "U", no abnormalities.
CoherenceCase ==
    /\ CoherenceApplied
    /\ ~IsStr(ast[1].chromosome_count)
    /\ ast[1].sex_chromosomes # <<"U">>
    /\ ast[1].abnormalities = <<>>

\* C7 as stated: in that case the coherence rule reports no error exactly
\* when count = 44 + len(sex_chromosomes), for any count.
C7_CoherenceForAnyCount ==
    CoherenceCase =>
        (errors = <<>> <=>
            ast[1].chromosome_count.int = 44 + Len(ast[1].sex_chromosomes))

\* C7 amended: in that case the coherence rule reports no error exactly when
\* the count is neither 45 nor 46, or count = 44 + len(sex_chromosomes).
C7_CoherenceFor45And46 ==
    CoherenceCase =>
        (errors = <<>> <=>
            \/ ast[1].chromosome_count.int \notin {45, 46}
            \/ ast[1].chromosome_count.int = 44 + Len(ast[1].sex_chromosomes))

\* The rule has passed a count other than 45 and 46 that does not satisfy
\* count = 44 + len(sex_chromosomes).
C7_Witness ==
    /\ CoherenceCase
    /\ ast[1].chromosome_count.int \notin {45, 46}
    /\ ast[1].chromosome_count.int # 44 + Len(ast[1].sex_chromosomes)
    /\ errors = <<>>

K_47_XY == <<"4", "7", ",", "X", "Y">>
K_46_X == <<"4", "6", ",", "X">>
K_46_XXY == <<"4", "6", ",", "X", "X", "Y">>

\* C8: the coherence rule reports no error for any numeric count other than
\* 45 and 46, whatever the sex chromosomes and the abnormalities; for 45 and
\* 46 without abnormalities it requires length 1 and 2; so "47,XY" is valid
\* and "46,X" and "46,XXY" are invalid.
C8_CoherenceOnly45And46 ==
    /\ (CoherenceApplied /\ ~IsStr(ast[1].chromosome_count)
            /\ ast[1].chromosome_count.int \notin {45, 46})
           => errors = <<>>
    /\ (CoherenceCase /\ ast[1].chromosome_count.int = 45)
           => (errors = <<>> <=> Len(ast[1].sex_chromosomes) = 1)
    /\ (CoherenceCase /\ ast[1].chromosome_count.int = 46)
           => (errors = <<>> <=> Len(ast[1].sex_chromosomes) = 2)
    /\ (pc = "done" /\ karyotype = K_47_XY)
           => (result # None /\ result[1].valid)
    /\ (pc = "done" /\ karyotype \in {K_46_X, K_46_XXY})
           => (result # None /\ ~result[1].valid)

\* "47,XY" has been answered valid.
C8_Witness ==
    /\ Returned
    /\ karyotype = K_47_XY
    /\ result[1].valid
    /\ result[1].errors = <<>>

\* The sex-chromosome rule was the last rule applied.
SexRuleApplied == pc = "rules" /\ rule = "SEX_CHR_VALID"

\* C9: the sex-chromosome rule reports an error exactly when the string is
\* not "U" and holds no "X"; it never fires for "U".
C9_SexRule ==
    SexRuleApplied =>
        (errors # <<>> <=>
            /\ ast[1].sex_chromosomes # <<"U">>
            /\ \A i \in 1..Len(ast[1].sex_chromosomes) :
                   ast[1].sex_chromosomes[i] # "X")

\* The rule has passed "U".
C9_Witness ==
    /\ SexRuleApplied
    /\ ast[1].sex_chromosomes = <<"U">>
    /\ errors = <<>>

\* The count-range rule was the last rule applied.
RangeRuleApplied == pc = "rules" /\ rule = "CHR_COUNT_RANGE"

\* C10: the count-range rule reports an error exactly when the count is an
\* integer below 23 or above 92; a range-string count never produces one.
C10_RangeRule ==
    RangeRuleApplied =>
        (errors # <<>> <=>
            /\ ~IsStr(ast[1].chromosome_count)
            /\ ast[1].chromosome_count.int \notin 23..92)

\* The rule has passed the limit 23.
C10_Witness ==
    /\ RangeRuleApplied
    /\ ast[1].chromosome_count = IntCount(23)
    /\ errors = <<>>

\* The abnormality rule with this id is the last rule applied, and it was
\* applied to the abnormality the outer loop is at.
AbnormalityRuleApplied(id) ==
    /\ pc = "abnormality_rules"
    /\ ri >= 2
    /\ abnormality_rules[ri - 1] = id
    /\ rule = id

\* The abnormality the outer loop of RuleEngine.validate is at.
CurrentAbnormality == ast[1].abnormalities[ai]

\* The number of ';'-separated chromosome ids of a translocation.
IdCount(abnormality) == Len(split(abnormality.chromosome, ";"))

T_9_22_q34 ==
    <<"t", "(", "9", ";", "2", "2", ")", "(", "q", "3", "4", ")">>

MaxBreakpoints == 3

RuleTypes ==
    {"del", "dup", "inv", "t", "r", "ins", "+", "-", "unknown"}

RuleChromosomes ==
    {<<"0">>, <<"1">>, <<"0", "1">>, <<"5">>, <<"2", "2">>, <<"2", "3">>,
     <<"9", "9">>, <<"X">>, <<"Y">>, <<"x">>, <<"9", ";", "2", "2">>}

RuleBreakpoints ==
    {Breakpoint(arm, 1, 3, None, FALSE) : arm \in {"p", "q"}}

RuleRaw == <<"r", "a", "w">>

RuleAbnormalities ==
    {Abnormality(type, chromosome, breakpoints, None, FALSE, None, RuleRaw) :
        type \in RuleTypes, chromosome \in RuleChromosomes,
        breakpoints \in UpTo(RuleBreakpoints, 0, MaxBreakpoints)}

\* ast = KaryotypeAST(46, "XX", [abn], None, None)
RuleInit ==
    /\ rules = ALL_CHROMOSOME_RULES
    /\ abnormality_rules = ALL_ABNORMALITY_RULES
    /\ pc = "built"
    /\ karyotype = <<>>
    /\ \E abn \in RuleAbnormalities :
           ast = Some(KaryotypeAST(IntCount(46), <<"X", "X">>, <<abn>>,
                                   None, None))
    /\ all_errors = <<>>
    /\ ri = 0
    /\ ai = 1
    /\ rule = ""
    /\ errors = <<>>
    /\ result = None
    /\ raised = None
    /\ cur = 1
    /\ frames = <<>>

\* errors = rule.validate(ast, abn)
Validate(id) ==
    /\ pc = "built"
    /\ pc' = "validated"
    /\ rule' = id
    /\ errors' = Rule_validate(id, ast[1], ast[1].abnormalities[1])
    /\ UNCHANGED <<cur, frames>>
    /\ UNCHANGED <<rules, abnormality_rules, karyotype, ast, all_errors, ri,
                   ai, result, raised>>

RuleNext ==
    \E i \in 1..Len(abnormality_rules) : Validate(abnormality_rules[i])

RuleSpec == RuleInit /\ [][RuleNext]_vars

\* The rule with this id has been applied to the abnormality built.
Validated(id) == pc = "validated" /\ rule = id

\* The abnormality built.
Built == ast[1].abnormalities[1]

\* The id of the breakpoint rule of "del" and "dup", and the opening words
\* of its arity message.
BreakpointRuleOf(type) ==
    IF type = "del" THEN "ABN_DEL_BP" ELSE "ABN_DUP_BP"

ArityText(type) ==
    IF type = "del"
    THEN "Deletion requires one or two breakpoints, found {} in {}"
    ELSE "Duplication requires one or two breakpoints, found {} in {}"

\* C12: for a del (dup) abnormality the deletion (duplication) rule reports
\* no error with one breakpoint; with two it reports no error exactly when
\* both have the same arm, and one error otherwise; with any other number
\* of breakpoints it reports exactly one error, the arity error.
C12_DelDupBreakpointRule ==
    \A type \in {"del", "dup"} :
        (Validated(BreakpointRuleOf(type)) /\ Built.type = type) =>
            CASE Len(Built.breakpoints) = 1 -> errors = <<>>
              [] Len(Built.breakpoints) = 2 ->
                   /\ errors = <<>> <=>
                          Built.breakpoints[1].arm = Built.breakpoints[2].arm
                   /\ Len(errors) <= 1
              [] OTHER ->
                   /\ Len(errors) = 1
                   /\ errors[1].text = ArityText(type)
                   /\ errors[1].args[1] = str(Len(Built.breakpoints))

\* The deletion rule has reported an interstitial deletion from p to q.
C12_Witness ==
    /\ Validated("ABN_DEL_BP")
    /\ Built.type = "del"
    /\ Len(Built.breakpoints) = 2
    /\ Built.breakpoints[1].arm = "p"
    /\ Built.breakpoints[2].arm = "q"
    /\ Len(errors) = 1

\* The position of the "[" of a trailing [digits] suffix of the segment, 0
\* when the segment has no such suffix.
CountSuffixAt(seg) ==
    IF \E i \in 1..(Len(seg) - 2) :
           /\ seg[i] = "["
           /\ seg[Len(seg)] = "]"
           /\ \A j \in (i + 1)..(Len(seg) - 1) : seg[j] \in DecimalDigits
    THEN CHOOSE i \in 1..(Len(seg) - 2) :
           /\ seg[i] = "["
           /\ \A j \in (i + 1)..(Len(seg) - 1) : seg[j] \in DecimalDigits
    ELSE 0

\* The integer of the trailing [digits] suffix, 0 without one.
SuffixCount(seg) ==
    IF CountSuffixAt(seg) = 0 THEN 0
    ELSE DecimalValue(Slice(seg, CountSuffixAt(seg) + 1, Len(seg) - 1))

\* The segment without its [digits] suffix.
WithoutSuffix(seg) ==
    IF CountSuffixAt(seg) = 0 THEN seg
    ELSE Slice(seg, 1, CountSuffixAt(seg) - 1)

\* C13: when an input with "/" parses, cell_lines holds one CellLine per
\* "/"-separated segment, in input order, with the fields the segment has
\* when parsed alone without its [digits] suffix; count is the integer of
\* that suffix, 0 without one; is_donor is false; the top-level fields are
\* those of cell_lines[0].  When an input without "/" parses, cell_lines
\* is null.
C13_MosaicCellLines ==
    ast # None =>
        IF IsMosaic(karyotype)
        THEN /\ ast[1].cell_lines # None
             /\ Len(ast[1].cell_lines[1]) = Len(SegmentTexts(karyotype))
             /\ \A i \in 1..Len(SegmentTexts(karyotype)) :
                    LET seg == SegmentTexts(karyotype)[i]
                        line == ast[1].cell_lines[1][i]
                        alone == parse(WithoutSuffix(seg))
                    IN /\ alone.tag = "ok"
                       /\ line.chromosome_count = alone.val.chromosome_count
                       /\ line.sex_chromosomes = alone.val.sex_chromosomes
                       /\ line.abnormalities = alone.val.abnormalities
                       /\ line.count = SuffixCount(seg)
                       /\ line.is_donor = FALSE
             /\ ast[1].chromosome_count =
                    ast[1].cell_lines[1][1].chromosome_count
             /\ ast[1].sex_chromosomes =
                    ast[1].cell_lines[1][1].sex_chromosomes
             /\ ast[1].abnormalities = ast[1].cell_lines[1][1].abnormalities
        ELSE ast[1].cell_lines = None

\* A mosaic of two different cell lines has been parsed, the first with a
\* count of 10 and an abnormality, the second without a count.
C13_Witness ==
    /\ ast # None
    /\ IsMosaic(karyotype)
    /\ Len(ast[1].cell_lines[1]) = 2
    /\ ast[1].cell_lines[1][1].count = 10
    /\ ast[1].cell_lines[1][2].count = 0
    /\ Len(ast[1].cell_lines[1][1].abnormalities) = 1
    /\ ast[1].cell_lines[1][2].abnormalities = <<>>
    /\ ast[1].abnormalities = ast[1].cell_lines[1][1].abnormalities

(***************************************************************************)
(* KaryotypeParser._parse_breakpoint taken alone: karyotype holds the      *)
(* string passed as bp_str, result the Breakpoint returned, raised the     *)
(* exception that left the call.                                           *)
(***************************************************************************)
MaxBreakpointLen == 5

BreakpointChars == {"p", "q", "x", "1", "3", ".", "\n"}

BreakpointStrings == UpTo(BreakpointChars, 0, MaxBreakpointLen)

BreakpointInit ==
    /\ rules = ALL_CHROMOSOME_RULES
    /\ abnormality_rules = ALL_ABNORMALITY_RULES
    /\ pc = "bp_str"
    /\ karyotype \in BreakpointStrings
    /\ ast = None
    /\ all_errors = <<>>
    /\ ri = 0
    /\ ai = 0
    /\ rule = ""
    /\ errors = <<>>
    /\ result = None
    /\ raised = None
    /\ cur = 1
    /\ frames = <<>>

\* The call ends: the Breakpoint is returned, or the exception leaves it.
BreakpointParsed(r) ==
    CASE r.tag = "ok" ->
           /\ result' = Some(r.val)
           /\ UNCHANGED raised
      [] OTHER ->
           /\ raised' = Some(r.tag)
           /\ UNCHANGED result

\* self._parse_breakpoint(bp_str)
ParseBreakpoint ==
    /\ pc = "bp_str"
    /\ pc' = "bp_done"
    /\ BreakpointParsed(parse_breakpoint(karyotype))
    /\ UNCHANGED <<cur, frames>>
    /\ UNCHANGED <<rules, abnormality_rules, karyotype, ast, all_errors, ri,
                   ai, rule, errors>>

BreakpointNext == ParseBreakpoint

BreakpointSpec == BreakpointInit /\ [][BreakpointNext]_vars

\* s is an arm p or q, a run of digits that ends at position n, and then
\* either nothing or "." and a second run of digits.
ArmDigitsUpTo(s, n) ==
    /\ 2 <= n
    /\ n <= Len(s)
    /\ s[1] \in {"p", "q"}
    /\ \A i \in 2..n : s[i] \in DecimalDigits
    /\ \/ n = Len(s)
       \/ /\ n + 2 <= Len(s)
          /\ s[n + 1] = "."
          /\ \A i \in (n + 2)..Len(s) : s[i] \in DecimalDigits

ArmDigitsForm(s) == \E n \in 2..Len(s) : ArmDigitsUpTo(s, n)

\* The Breakpoint the claim gives for a string of that form.
ExpectedBreakpoint(s) ==
    LET n == CHOOSE m \in 2..Len(s) : ArmDigitsUpTo(s, m)
    IN Breakpoint(s[1], DigitValue(s[2]),
                  IF n >= 3 THEN DecimalValue(Slice(s, 3, n)) ELSE 0,
                  IF n = Len(s) THEN None
                  ELSE Some(Slice(s, n + 2, Len(s))),
                  FALSE)

\* C14: parse_breakpoint returns, for an arm p or q followed by digits and
\* an optional "." and digits, the breakpoint whose region is the first
\* digit, whose band is the integer of the remaining digits of the run (0
\* when there are none) and whose subband is the text after the "." (null
\* without one); for every other string it raises ParseError.
C14_ParseBreakpoint ==
    pc = "bp_done" =>
        IF ArmDigitsForm(karyotype)
        THEN /\ raised = None
             /\ result = Some(ExpectedBreakpoint(karyotype))
        ELSE /\ raised = Some("ParseError")
             /\ result = None

\* The opening tokens of the forms that take a chromosome and breakpoints.
OpeningTokens ==
    {<<"d", "e", "l", "(">>, <<"d", "u", "p", "(">>, <<"i", "n", "v", "(">>,
     <<"t", "(">>, <<"i", "n", "s", "(">>, <<"i", "(">>, <<"r", "(">>,
     <<"h", "s", "r", "(">>, <<"a", "d", "d", "(">>}

\* The token has a second parenthesised group, the breakpoint group.
HasBreakpointGroup(token) ==
    \E j \in 1..(Len(token) - 1) : token[j] = ")" /\ token[j + 1] = "("

\* No accepted abnormality whose token starts with this opening token is of
\* type "unknown", or has a breakpoint group and no breakpoints.
NeverHalfAccepted(opening) ==
    ast # None =>
        \A i \in 1..Len(ast[1].abnormalities) :
            startswith(ast[1].abnormalities[i].raw, opening) =>
                /\ ast[1].abnormalities[i].type # "unknown"
                /\ HasBreakpointGroup(ast[1].abnormalities[i].raw) =>
                       ast[1].abnormalities[i].breakpoints # <<>>

\* C15: a token that starts with one of del(, dup(, inv(, t(, ins(, i(, r(,
\* hsr(, add( is either parsed in that form or makes parse fail: it is
\* never accepted as an abnormality of type "unknown", and never accepted
\* with its breakpoint group left out.
C15_MalformedTokensRejected ==
    \A opening \in OpeningTokens : NeverHalfAccepted(opening)

\* The types of the forms that name chromosomes.
RecognisedTypes ==
    {"+", "-", "del", "add", "dup", "inv", "t", "ins", "i", "r", "der", "hsr"}

\* The abnormality names a chromosome: every recognised form does, but for
\* the plain "hsr", which has none.
NamesChromosome(abnormality) ==
    /\ abnormality.type \in RecognisedTypes
    /\ ~(abnormality.type = "hsr" /\ abnormality.chromosome = <<>>)

\* The ';'-separated identifiers of the chromosome field are all of 1..22,
\* X, Y.
AllIdsValid(abnormality) ==
    \A j \in 1..Len(split(abnormality.chromosome, ";")) :
        split(abnormality.chromosome, ";")[j] \in VALID_CHROMOSOMES

\* C16: in every abnormality the parser accepts in a form that names
\* chromosomes, each identifier is one of 1..22, X, Y.
C16_AcceptedIdsAreChromosomes ==
    ast # None =>
        \A i \in 1..Len(ast[1].abnormalities) :
            NamesChromosome(ast[1].abnormalities[i]) =>
                AllIdsValid(ast[1].abnormalities[i])

\* The names 1..22, X, Y, written out.
ChromosomeNames ==
    {<<d>> : d \in {"1", "2", "3", "4", "5", "6", "7", "8", "9"}}
    \cup {<<"1", d>> : d \in DecimalDigits}
    \cup {<<"2", d>> : d \in {"0", "1", "2"}}
    \cup {<<"X">>, <<"Y">>}

\* C17: the numerical-chromosome rule reports exactly one error for an
\* abnormality of type "+" or "-" whose chromosome is not one of the names
\* 1..22, X, Y, and no error for any other abnormality.
C17_NumericalChromosomeRule ==
    Validated("ABN_NUM_CHR_VALID") =>
        /\ Len(errors) =
               (IF /\ Built.type \in {"+", "-"}
                   /\ Built.chromosome \notin ChromosomeNames
                THEN 1 ELSE 0)
        /\ errors # <<>> =>
               /\ errors[1].text =
                      "Invalid chromosome '{}' in {}. Must be 1-22, X, or Y"
               /\ errors[1].args[1] = Built.chromosome

\* The rule has reported the loss of a chromosome 23.
C17_Witness ==
    /\ Validated("ABN_NUM_CHR_VALID")
    /\ Built.type = "-"
    /\ Built.chromosome = <<"2", "3">>
    /\ Len(errors) = 1

(***************************************************************************)
(* Several threads call validate_karyotype.  The variables of a call are   *)
(* the locals of the thread that is running; frames holds the locals of    *)
(* the others.  The parser has no attributes, and the two catalogs of the  *)
(* engine are the only state the threads share.  A switch can take place   *)
(* between any two steps, and a thread calls again once its call is over.  *)
(***************************************************************************)
MaxThreads == 2

ThreadKaryotypes ==
    {<<"4", "6", ",", "X", "X">>,                       \* 46,XX
     <<"4", "6", ",", "Y">>,                            \* 46,Y
     <<"4", "6">>,                                      \* 46
     <<"4", SuperscriptTwo, ",", "X", "X">>,            \* 4(superscript 2),XX
     <<"4", "6", ",", "X", "X", ",", "+", "9", "9">>}   \* 46,XX,+99

\* The locals of the running thread.
Frame ==
    [pc |-> pc, karyotype |-> karyotype, ast |-> ast,
     all_errors |-> all_errors, ri |-> ri, ai |-> ai, rule |-> rule,
     errors |-> errors, result |-> result, raised |-> raised]

\* The locals of a thread that is not in a call.
IdleFrame ==
    [pc |-> "idle", karyotype |-> <<>>, ast |-> None, all_errors |-> <<>>,
     ri |-> 0, ai |-> 0, rule |-> "", errors |-> <<>>, result |-> None,
     raised |-> None]

ThreadsInit ==
    /\ rules = ALL_CHROMOSOME_RULES
    /\ abnormality_rules = ALL_ABNORMALITY_RULES
    /\ pc = "idle"
    /\ karyotype = <<>>
    /\ ast = None
    /\ all_errors = <<>>
    /\ ri = 0
    /\ ai = 0
    /\ rule = ""
    /\ errors = <<>>
    /\ result = None
    /\ raised = None
    /\ cur = 1
    /\ frames = [t \in 1..MaxThreads |-> IdleFrame]

\* Mutant: all_errors is an attribute of the engine, shared by the threads.
Switch_sharing_errors(t) ==
    /\ t # cur
    /\ frames' = [frames EXCEPT ![cur] = Frame, ![t] = IdleFrame]
    /\ cur' = t
    /\ pc' = frames[t].pc
    /\ karyotype' = frames[t].karyotype
    /\ ast' = frames[t].ast
    /\ ri' = frames[t].ri
    /\ ai' = frames[t].ai
    /\ rule' = frames[t].rule
    /\ errors' = frames[t].errors
    /\ result' = frames[t].result
    /\ raised' = frames[t].raised
    /\ UNCHANGED <<rules, abnormality_rules, all_errors>>

\* The running thread is suspended and thread t runs on.
Switch(t) ==
    /\ t # cur
    /\ frames' = [frames EXCEPT ![cur] = Frame, ![t] = IdleFrame]
    /\ cur' = t
    /\ pc' = frames[t].pc
    /\ karyotype' = frames[t].karyotype
    /\ ast' = frames[t].ast
    /\ all_errors' = frames[t].all_errors
    /\ ri' = frames[t].ri
    /\ ai' = frames[t].ai
    /\ rule' = frames[t].rule
    /\ errors' = frames[t].errors
    /\ result' = frames[t].result
    /\ raised' = frames[t].raised
    /\ UNCHANGED <<rules, abnormality_rules>>

ThreadsNext ==
    \/ \E k \in ThreadKaryotypes : Call(k)
    \/ Parse
    \/ ApplyRule
    \/ EndRules
    \/ ApplyAbnormalityRule
    \/ NextAbnormality
    \/ Return
    \/ Discard
    \/ \E t \in 1..MaxThreads : Switch(t)

ThreadsSpec == ThreadsInit /\ [][ThreadsNext]_vars

\* The locals of thread t, running or not.
FrameOf(t) == IF t = cur THEN Frame ELSE frames[t]

\* The call of thread t is over.
Done(t) == FrameOf(t).pc = "done"

K_46_Y == <<"4", "6", ",", "Y">>

\* C18: two calls of validate_karyotype on the same string end the same
\* way, whatever was called before and in between: when both return, valid
\* is the same, errors are the same in the same order and the parsed ASTs
\* are equal.
C18_SameStringSameResult ==
    \A s, t \in 1..MaxThreads :
        (/\ Done(s)
         /\ Done(t)
         /\ FrameOf(s).karyotype = FrameOf(t).karyotype)
        => /\ FrameOf(s).result = FrameOf(t).result
           /\ FrameOf(s).raised = FrameOf(t).raised

\* Two calls on 46,Y are over, both with the error of the sex-chromosome
\* rule and the parsed AST.
C18_Witness ==
    /\ Done(1)
    /\ Done(2)
    /\ FrameOf(1).karyotype = K_46_Y
    /\ FrameOf(2).karyotype = K_46_Y
    /\ FrameOf(1).result # None
    /\ FrameOf(1).result[1].errors # <<>>
    /\ FrameOf(1).result[1].parsed # None
    /\ FrameOf(2).result = FrameOf(1).result

\* What validate_karyotype gives for the string when no other call runs:
\* the result returned and the exception that escapes.
ResultAlone(text) ==
    IF parse(text).tag = "ok"
    THEN Some(ValidationResult(
             CatalogMessages(ALL_CHROMOSOME_RULES, parse(text).val,
                             parse(text).val) \o
             ConcatAll([j \in 1..Len(parse(text).val.abnormalities) |->
                           CatalogMessages(ALL_ABNORMALITY_RULES,
                                           parse(text).val,
                                           parse(text).val.abnormalities[j])])
                 = <<>>,
             CatalogMessages(ALL_CHROMOSOME_RULES, parse(text).val,
                             parse(text).val) \o
             ConcatAll([j \in 1..Len(parse(text).val.abnormalities) |->
                           CatalogMessages(ALL_ABNORMALITY_RULES,
                                           parse(text).val,
                                           parse(text).val.abnormalities[j])]),
             Some(parse(text).val)))
    ELSE IF parse(text).tag = "ParseError"
    THEN Some(ValidationResult(FALSE, <<parse(text).msg>>, None))
    ELSE None

RaisedAlone(text) ==
    IF parse(text).tag \in {"ok", "ParseError"} THEN None
    ELSE Some(parse(text).tag)

\* Every call that is over ended as it does when it runs alone.
AsAlone ==
    \A t \in 1..MaxThreads :
        Done(t) =>
            /\ FrameOf(t).result = ResultAlone(FrameOf(t).karyotype)
            /\ FrameOf(t).raised = RaisedAlone(FrameOf(t).karyotype)

\* A step writes neither catalog, and a step of the rule loops leaves the
\* AST of the running call as it is.
OnlyReads ==
    /\ rules' = rules
    /\ abnormality_rules' = abnormality_rules
    /\ (cur' = cur /\ pc \in {"rules", "abnormality_rules"}) => ast' = ast
    /\ \A t \in 1..MaxThreads :
           (t # cur /\ t # cur') => frames'[t] = frames[t]

\* C19: no step of validate_karyotype or RuleEngine.validate writes the
\* catalogs or the AST under the rules, or the locals of another call, and
\* under every interleaving of the calls each call ends as it does when it
\* runs alone.
C19_InterleavedAsAlone == []AsAlone /\ [][OnlyReads]_vars

\* Two calls on different strings are both in the rule loops, each with
\* errors of its own collected.
C19_Witness ==
    /\ FrameOf(1).pc = "abnormality_rules"
    /\ FrameOf(2).pc = "rules"
    /\ FrameOf(1).karyotype # FrameOf(2).karyotype
    /\ FrameOf(1).all_errors # <<>>
    /\ FrameOf(2).all_errors # <<>>
    /\ FrameOf(1).all_errors # FrameOf(2).all_errors

\* The ","-separated fields of an input without "/".
Fields(text) == split(strip(text), ",")

\* The abnormality tokens of the input: the fields after the second,
\* trimmed, the empty ones left out.
RECURSIVE NonEmpty(_)
NonEmpty(parts) ==
    IF parts = <<>> THEN <<>>
    ELSE IF strip(Head(parts)) = <<>> THEN NonEmpty(Tail(parts))
    ELSE <<strip(Head(parts))>> \o NonEmpty(Tail(parts))

Tokens(text) == NonEmpty(Slice(Fields(text), 3, Len(Fields(text))))

\* The token without a leading "?" and without a trailing mat, pat or dn.
WithoutUncertain(token) ==
    IF token # <<>> /\ token[1] = "?" THEN Slice(token, 2, Len(token))
    ELSE token

WithoutInheritance(token) ==
    IF \/ endswith(token, <<"m", "a", "t">>)
       \/ endswith(token, <<"p", "a", "t">>)
    THEN Slice(token, 1, Len(token) - 3)
    ELSE IF endswith(token, <<"d", "n">>)
    THEN Slice(token, 1, Len(token) - 2)
    ELSE token

TokenBody(token) == WithoutInheritance(WithoutUncertain(token))

\* The body of the token matches the pattern of no form.
MatchesNoPattern(token) ==
    /\ NUMERICAL_ABNORMALITY_PATTERN(TokenBody(token)) = None
    /\ DELETION_PATTERN(TokenBody(token)) = None
    /\ ADD_PATTERN(TokenBody(token)) = None
    /\ DUPLICATION_PATTERN(TokenBody(token)) = None
    /\ INVERSION_PATTERN(TokenBody(token)) = None
    /\ TRANSLOCATION_PATTERN(TokenBody(token)) = None
    /\ INSERTION_PATTERN(TokenBody(token)) = None
    /\ ISOCHROMOSOME_SHORT_PATTERN(TokenBody(token)) = None
    /\ ISOCHROMOSOME_LONG_PATTERN(TokenBody(token)) = None
    /\ RING_SIMPLE_PATTERN(TokenBody(token)) = None
    /\ RING_BREAKPOINT_PATTERN(TokenBody(token)) = None
    /\ MARKER_PATTERN(TokenBody(token)) = None
    /\ DERIVATIVE_PATTERN(TokenBody(token)) = None
    /\ ~DMIN_PATTERN(TokenBody(token))
    /\ HSR_LOCATION_PATTERN(TokenBody(token)) = None
    /\ ~HSR_SIMPLE_PATTERN(TokenBody(token))

\* The opening tokens the parser dispatches on before it tries a pattern.
DispatchedOpenings ==
    OpeningTokens \ {<<"h", "s", "r", "(">>}

\* The body of the token starts with none of them.
NoDispatchedOpening(token) ==
    \A opening \in DispatchedOpenings : ~startswith(TokenBody(token), opening)

\* The call is past the parser, on an input without "/" whose count and sex
\* fields are accepted.
ParsedFields ==
    /\ pc \notin {"idle", "parse"}
    /\ ~IsMosaic(karyotype)
    /\ Len(Fields(karyotype)) >= 3
    /\ parse_chromosome_count(Fields(karyotype)[1]).tag = "ok"
    /\ parse_sex_chromosomes(Fields(karyotype)[2]).tag = "ok"

\* The abnormality a token that is not recognised yields.
IsUnknownOf(abnormality, token) ==
    /\ abnormality.type = "unknown"
    /\ abnormality.chromosome = <<>>
    /\ abnormality.breakpoints = <<>>
    /\ abnormality.raw = token

LineTokens(text, i) ==
    IF IsMosaic(text) THEN Tokens(WithoutSuffix(SegmentTexts(text)[i]))
    ELSE Tokens(text)

\* The abnormalities the parser produced for segment i.
LineAbnormalities(i) ==
    IF ast[1].cell_lines # None THEN ast[1].cell_lines[1][i].abnormalities
    ELSE ast[1].abnormalities

\* The inheritance the token carries: its suffix once a leading "?" is off.
InheritanceOf(token) ==
    IF endswith(WithoutUncertain(token), <<"m", "a", "t">>) THEN Some("mat")
    ELSE IF endswith(WithoutUncertain(token), <<"p", "a", "t">>)
    THEN Some("pat")
    ELSE IF endswith(WithoutUncertain(token), <<"d", "n">>) THEN Some("dn")
    ELSE None

\* The abnormality carries the markers of the token.
MarkersOf(abnormality, token) ==
    /\ abnormality.raw = token
    /\ abnormality.uncertain <=> (token[1] = "?")
    /\ abnormality.inheritance = InheritanceOf(token)

\* C21: every abnormality the parser produces, of any type and in every
\* cell line, has raw equal to the trimmed token, "?" and inheritance
\* suffix included, uncertain true exactly when the token starts with "?",
\* and inheritance the suffix mat, pat or dn the token ends with once a
\* leading "?" is removed, null when it ends with none.
C21_MarkersOfToken ==
    ast # None =>
        \A i \in 1..Len(SegmentTexts(karyotype)) :
            /\ Len(LineAbnormalities(i)) = Len(LineTokens(karyotype, i))
            /\ \A j \in 1..Len(LineTokens(karyotype, i)) :
                   MarkersOf(LineAbnormalities(i)[j],
                             LineTokens(karyotype, i)[j])

\* ?del(5)(q13)dn has been parsed as an uncertain de-novo deletion whose
\* raw is the whole token.
C21_Witness ==
    /\ ast # None
    /\ Len(ast[1].abnormalities) = 1
    /\ ast[1].abnormalities[1].type = "del"
    /\ ast[1].abnormalities[1].uncertain
    /\ ast[1].abnormalities[1].inheritance = Some("dn")
    /\ ast[1].abnormalities[1].raw = Tokens(karyotype)[1]
    /\ Tokens(karyotype)[1][1] = "?"

\* The abnormality has exactly two breakpoints, on different arms.
TwoArms(abnormality) ==
    /\ Len(abnormality.breakpoints) = 2
    /\ abnormality.breakpoints[1].arm # abnormality.breakpoints[2].arm

\* C22: the ring rule reports exactly one error for an abnormality of type
\* "r" unless it has exactly two breakpoints on different arms, in which
\* case it reports none; it reports nothing for any other type.
C22_RingRule ==
    Validated("ABN_RING_BP") =>
        Len(errors) = (IF Built.type = "r" /\ ~TwoArms(Built) THEN 1 ELSE 0)

\* The rule has reported a ring whose two breakpoints are both on q.
C22_Witness ==
    /\ Validated("ABN_RING_BP")
    /\ Built.type = "r"
    /\ Len(Built.breakpoints) = 2
    /\ Built.breakpoints[1].arm = "q"
    /\ Built.breakpoints[2].arm = "q"
    /\ Len(errors) = 1

\* The token is a ring in the simple form r(<chr>).
IsSimpleRing(token) == RING_SIMPLE_PATTERN(TokenBody(token)) # None

\* The error of the ring rule for a ring without breakpoints.
NoBreakpointsMessage(raw) ==
    Message("Ring chromosome requires two breakpoints, found {} in {}",
            <<<<"0">>, raw>>)

\* Some segment of the input has a token in the simple ring form.
SomeSimpleRing(text) ==
    \E i \in 1..Len(SegmentTexts(text)) :
        \E j \in 1..Len(LineTokens(text, i)) :
            IsSimpleRing(LineTokens(text, i)[j])

\* The first (or only) segment has one.
SimpleRingInFirst(text) ==
    \E j \in 1..Len(LineTokens(text, 1)) :
        IsSimpleRing(LineTokens(text, 1)[j])

\* C23 as stated: every parsed input with a token r(<chr>) is returned
\* invalid.
C23_SimpleRingNeverValid ==
    (Returned /\ ast # None /\ SomeSimpleRing(karyotype))
        => ~result[1].valid

\* C23: a token r(<chr>) is parsed as an "r" abnormality without
\* breakpoints, and every parsed input that has such a token in its only or
\* first cell line is returned invalid, with the error of the ring rule for
\* that token among its errors.
C23_SimpleRingInFirstLineInvalid ==
    /\ ast # None =>
           \A i \in 1..Len(SegmentTexts(karyotype)) :
               \A j \in 1..Len(LineTokens(karyotype, i)) :
                   IsSimpleRing(LineTokens(karyotype, i)[j]) =>
                       /\ LineAbnormalities(i)[j].type = "r"
                       /\ LineAbnormalities(i)[j].breakpoints = <<>>
    /\ (Returned /\ ast # None /\ SimpleRingInFirst(karyotype)) =>
           /\ ~result[1].valid
           /\ \A j \in 1..Len(LineTokens(karyotype, 1)) :
                  IsSimpleRing(LineTokens(karyotype, 1)[j]) =>
                      \E e \in 1..Len(result[1].errors) :
                          result[1].errors[e] =
                              NoBreakpointsMessage(LineTokens(karyotype, 1)[j])

\* 46,XX,r(1) has been returned with the one error of the ring rule.
C23_Witness ==
    /\ Returned
    /\ ast # None
    /\ ~IsMosaic(karyotype)
    /\ Tokens(karyotype) = <<<<"r", "(", "1", ")">>>>
    /\ result[1].errors = <<NoBreakpointsMessage(<<"r", "(", "1", ")">>)>>

\* The breakpoint field of a token of the form ins(<chr>)(<bps>): the text
\* of its second parenthesised group.
InsertionField(token) ==
    Slice(TokenBody(token), find(TokenBody(token), ")") + 2,
          Len(TokenBody(token)) - 1)

\* s is exactly k breakpoints written one after the other.
RECURSIVE ConsecutiveBreakpoints(_, _)
ConsecutiveBreakpoints(s, k) ==
    IF k = 0 THEN s = <<>>
    ELSE \E n \in 1..Len(s) :
             /\ ArmDigitsForm(Slice(s, 1, n))
             /\ ConsecutiveBreakpoints(Slice(s, n + 1, Len(s)), k - 1)

\* The breakpoint field is one the claim lets parse: without ";" three
\* consecutive breakpoints, with ";" two segments of which the second is
\* one or two breakpoints.
InsertionFieldAllowed(field) ==
    IF ~Contains(field, ";") THEN ConsecutiveBreakpoints(field, 3)
    ELSE /\ Len(split(field, ";")) = 2
         /\ \/ ConsecutiveBreakpoints(strip(split(field, ";")[2]), 1)
            \/ ConsecutiveBreakpoints(strip(split(field, ";")[2]), 2)

\* C24: an intrachromosomal ins(<chr>)(<bps>) parses only when <bps> is
\* exactly three consecutive breakpoints; an interchromosomal one (";" in
\* the breakpoint field) parses only when the segment after the first ";"
\* is one or two breakpoints and no further ";"-separated segment follows;
\* and an input with a parsed insertion is returned valid only if the
\* insertion has exactly three breakpoints.
C24_Insertion ==
    /\ ast # None =>
           \A i \in 1..Len(SegmentTexts(karyotype)) :
               \A j \in 1..Len(LineAbnormalities(i)) :
                   LineAbnormalities(i)[j].type = "ins" =>
                       InsertionFieldAllowed(
                           InsertionField(LineAbnormalities(i)[j].raw))
    /\ (Returned /\ ast # None /\ result[1].valid) =>
           \A j \in 1..Len(ast[1].abnormalities) :
               ast[1].abnormalities[j].type = "ins" =>
                   Len(ast[1].abnormalities[j].breakpoints) = 3

\* The parts whose text is not empty once trimmed, as they are written.
RECURSIVE KeepNonEmpty(_)
KeepNonEmpty(parts) ==
    IF parts = <<>> THEN <<>>
    ELSE IF strip(Head(parts)) = <<>> THEN KeepNonEmpty(Tail(parts))
    ELSE <<Head(parts)>> \o KeepNonEmpty(Tail(parts))

\* The ","-separated fields of a segment after the second, the [digits]
\* suffix of a mosaic segment taken off first.
AbnormalityFields(seg, mosaic) ==
    Slice(split(IF mosaic THEN WithoutSuffix(seg) ELSE seg, ","), 3,
          Len(split(IF mosaic THEN WithoutSuffix(seg) ELSE seg, ",")))

\* The segment written without its empty abnormality fields.
SegmentWithoutEmpty(seg, mosaic) ==
    IF AbnormalityFields(seg, mosaic) = <<>> THEN seg
    ELSE join(Slice(split(seg, ","), 1, 2)
                  \o KeepNonEmpty(AbnormalityFields(seg, mosaic)), ",")
             \o (IF mosaic
                 THEN Slice(seg, Len(WithoutSuffix(seg)) + 1, Len(seg))
                 ELSE <<>>)

\* The input written without its empty abnormality fields.
WithoutEmptyFields(text) ==
    join([i \in 1..Len(SegmentTexts(text)) |->
             SegmentWithoutEmpty(SegmentTexts(text)[i], IsMosaic(text))],
         IF IsMosaic(text) THEN "/" ELSE ",")

\* Some abnormality field of the input is empty once trimmed.
HasEmptyField(text) ==
    \E i \in 1..Len(SegmentTexts(text)) :
        \E j \in 1..Len(AbnormalityFields(SegmentTexts(text)[i],
                                          IsMosaic(text))) :
            strip(AbnormalityFields(SegmentTexts(text)[i],
                                    IsMosaic(text))[j]) = <<>>

CountFieldOf(text, i) ==
    split(IF IsMosaic(text) THEN WithoutSuffix(SegmentTexts(text)[i])
          ELSE SegmentTexts(text)[i], ",")[1]

\* The chromosome count the parser gave to segment i.
LineCount(i) ==
    IF ast[1].cell_lines # None
    THEN ast[1].cell_lines[1][i].chromosome_count
    ELSE ast[1].chromosome_count

\* The text of the error of _parse_chromosome_count.
CountErrorText == "Invalid chromosome count: '{}' is not a number"

\* The rules on the chromosome count and the coherence rule.
CountRules == {"CHR_COUNT_NUMERIC", "CHR_COUNT_RANGE", "SEX_CHR_COHERENCE"}

\* C26: a chromosome-count field that contains "~" is accepted by the
\* parser as the trimmed string whatever surrounds the "~" (the parse never
\* ends with the chromosome-count error for it, and the AST carries the
\* trimmed text), and for an AST with such a count the count-numeric,
\* count-range and coherence rules report no error.
C26_RangeCountUnchecked ==
    /\ ast # None =>
           \A i \in 1..Len(SegmentTexts(karyotype)) :
               Contains(CountFieldOf(karyotype, i), "~") =>
                   LineCount(i) = StrCount(strip(CountFieldOf(karyotype, i)))
    /\ (/\ pc = "done"
        /\ ~IsMosaic(karyotype)
        /\ Contains(strip(karyotype), ",")
        /\ Contains(CountFieldOf(karyotype, 1), "~")) =>
           /\ raised = None
           /\ result[1].parsed = None =>
                  result[1].errors[1].text # CountErrorText
    /\ (/\ pc = "rules"
        /\ rule \in CountRules
        /\ IsStr(ast[1].chromosome_count)
        /\ Contains(ast[1].chromosome_count.str, "~")) =>
           errors = <<>>

\* The coherence rule has passed the count "~" with three sex chromosomes
\* and no abnormality.
C26_Witness ==
    /\ pc = "rules"
    /\ rule = "SEX_CHR_COHERENCE"
    /\ karyotype = <<"~", ",", "X", "X", "Y">>
    /\ ast[1].chromosome_count = StrCount(<<"~">>)
    /\ ast[1].abnormalities = <<>>
    /\ errors = <<>>

\* The text of segment i that is split on ",": the segment, its [digits]
\* suffix taken off when the input is a mosaic.
SegmentBody(text, i) ==
    IF IsMosaic(text) THEN WithoutSuffix(SegmentTexts(text)[i])
    ELSE SegmentTexts(text)[i]

\* The outcomes of the checks of one segment, each taken by itself, in the
\* order of the claim: the comma, the chromosome count, the sex
\* chromosomes, the abnormality tokens from left to right.
SegmentChecks(body) ==
    IF ~Contains(body, ",") THEN <<[tag |-> "ParseError", msg |-> CommaMessage]>>
    ELSE <<Ok(TRUE),
           parse_chromosome_count(split(body, ",")[1]),
           parse_sex_chromosomes(split(body, ",")[2])>>
         \o [j \in 1..Len(NonEmpty(Slice(split(body, ","), 3,
                                         Len(split(body, ","))))) |->
                parse_abnormality(NonEmpty(Slice(split(body, ","), 3,
                                                 Len(split(body, ","))))[j])]

\* The checks of the whole input in the order of the claim.
AllChecks(text) ==
    IF AllWhitespace(text) THEN <<[tag |-> "ParseError", msg |-> EmptyMessage]>>
    ELSE ConcatAll([i \in 1..Len(SegmentTexts(text)) |->
                       SegmentChecks(SegmentBody(text, i))])

\* The position of the first check that does not pass, 0 when all pass.
FirstFailing(checks) ==
    IF \A n \in 1..Len(checks) : checks[n].tag = "ok" THEN 0
    ELSE CHOOSE n \in 1..Len(checks) :
             /\ checks[n].tag # "ok"
             /\ \A m \in 1..(n - 1) : checks[m].tag = "ok"

\* The number of checks of the input that do not pass.
FailingChecks(text) ==
    Cardinality({n \in 1..Len(AllChecks(text)) :
                    AllChecks(text)[n].tag # "ok"})

\* C27: a result that reports a parse error reports exactly one, the error
\* of the first check that fails in the order: empty input; then, segment
\* by segment from left to right, the comma, the chromosome count, the sex
\* chromosomes and the abnormality tokens from left to right; and whenever
\* the first failing check fails with a parse error, that error is the
\* result.
C27_FirstFailureReported ==
    pc = "done" =>
        /\ (result # None /\ result[1].parsed = None) =>
               /\ FirstFailing(AllChecks(karyotype)) # 0
               /\ AllChecks(karyotype)[FirstFailing(AllChecks(karyotype))].tag
                      = "ParseError"
               /\ result[1].errors =
                      <<AllChecks(karyotype)[
                            FirstFailing(AllChecks(karyotype))].msg>>
        /\ (/\ FirstFailing(AllChecks(karyotype)) # 0
            /\ AllChecks(karyotype)[FirstFailing(AllChecks(karyotype))].tag
                   = "ParseError") =>
               /\ result # None
               /\ result[1].parsed = None

\* foo,Z,inv(9)(p12), where the count, the sex chromosomes and the
\* abnormality all fail, has been answered with the chromosome-count error
\* alone.
C27_Witness ==
    /\ Returned
    /\ karyotype = <<"f", "o", "o", ",", "Z", ",", "i", "n", "v", "(", "9",
                     ")", "(", "p", "1", "2", ")">>
    /\ FailingChecks(karyotype) = 3
    /\ Len(result[1].errors) = 1
    /\ result[1].errors[1].text = CountErrorText

\* Every segment of the input parses when taken alone.
EverySegmentParses(text) ==
    \A i \in 1..Len(SegmentTexts(text)) : SegmentOutcome(text, i).tag = "ok"

K_46_XX_46_Y == <<"4", "6", ",", "X", "X", "/", "4", "6", ",", "Y">>

\* C28: for a mosaic input in which every segment parses, valid and errors
\* are those of the first segment validated alone (without its [digits]
\* suffix), whatever the other segments hold; so two mosaics with the same
\* first segment get the same valid and errors, and "46,XX/46,Y" is valid.
C28_FirstCellLineOnly ==
    (pc = "done" /\ IsMosaic(karyotype) /\ EverySegmentParses(karyotype)) =>
        /\ result # None
        /\ ResultAlone(SegmentBody(karyotype, 1)) # None
        /\ result[1].valid = ResultAlone(SegmentBody(karyotype, 1))[1].valid
        /\ result[1].errors = ResultAlone(SegmentBody(karyotype, 1))[1].errors
        /\ karyotype = K_46_XX_46_Y => result[1].valid

\* 46,XX/46,Y has been returned valid, although 46,Y alone is not.
C28_Witness ==
    /\ Returned
    /\ karyotype = K_46_XX_46_Y
    /\ result[1].valid
    /\ result[1].errors = <<>>
    /\ ~ResultAlone(SegmentBody(karyotype, 2))[1].valid

\* The numbers of breakpoints the claim gives to a parsed abnormality of
\* the type; any number for the types it does not name.
BreakpointCounts(type) ==
    IF type = "inv" THEN {2}
    ELSE IF type \in {"i", "add"} THEN {1}
    ELSE IF type \in {"del", "dup"} THEN {1, 2}
    ELSE IF type = "hsr" THEN {0, 1}
    ELSE IF type \in {"+", "-", "+mar", "der", "dmin", "unknown"} THEN {0}
    ELSE 0..Len(karyotype)

\* The abnormality has arms p and q only and a number of breakpoints of
\* its type.
WellFormedAbnormality(abnormality) ==
    /\ \A b \in 1..Len(abnormality.breakpoints) :
           abnormality.breakpoints[b].arm \in {"p", "q"}
    /\ Len(abnormality.breakpoints) \in BreakpointCounts(abnormality.type)

\* The rules that never report on a parsed abnormality.
SilentRules ==
    {"ABN_BP_ARM_VALID", "ABN_INV_TWO_BP", "ABN_ISO_BP", "ABN_ADD_BP",
     "ABN_HSR_BP", "ABN_DMIN_BP"}

\* The texts of the same-arm errors of the deletion and duplication rules.
SameArmTexts ==
    {"Interstitial deletion breakpoints must be on same arm, found {} and {} in {}",
     "Duplication breakpoints must be on same arm, found {} and {} in {}"}

\* C29: in every AST of the parser, in every cell line, each breakpoint arm
\* is p or q, an inv has 2 breakpoints, an i and an add have 1, a del and a
\* dup 1 or 2, an hsr 0 or 1, and +, -, +mar, der, dmin and unknown have
\* none; so the breakpoint-arm, inversion, isochromosome, add, hsr and dmin
\* rules report nothing, and the deletion and duplication rules report
\* nothing but the same-arm error.
C29_ParsedAbnormalitiesWellFormed ==
    /\ ast # None =>
           \A i \in 1..Len(SegmentTexts(karyotype)) :
               \A j \in 1..Len(LineAbnormalities(i)) :
                   WellFormedAbnormality(LineAbnormalities(i)[j])
    /\ \A id \in SilentRules : AbnormalityRuleApplied(id) => errors = <<>>
    /\ \A id \in {"ABN_DEL_BP", "ABN_DUP_BP"} :
           AbnormalityRuleApplied(id) =>
               \/ errors = <<>>
               \/ Len(errors) = 1 /\ errors[1].text \in SameArmTexts

\* The deletion rule has reported the parsed del(5)(p13q33), whose two
\* breakpoints are on different arms.
C29_Witness ==
    /\ AbnormalityRuleApplied("ABN_DEL_BP")
    /\ CurrentAbnormality.type = "del"
    /\ Len(CurrentAbnormality.breakpoints) = 2
    /\ CurrentAbnormality.breakpoints[1].arm = "p"
    /\ CurrentAbnormality.breakpoints[2].arm = "q"
    /\ Len(errors) = 1
    /\ errors[1].text \in SameArmTexts

\* The count rules and the must-contain-X rule pass the AST.
CountAndSexPass(tree) ==
    \A id \in {"CHR_COUNT_NUMERIC", "CHR_COUNT_RANGE", "SEX_CHR_VALID"} :
        Rule_validate(id, tree, tree) = <<>>

\* The AST has abnormalities, all of type "unknown".
OnlyUnknown(tree) ==
    /\ tree.abnormalities # <<>>
    /\ \A j \in 1..Len(tree.abnormalities) :
           tree.abnormalities[j].type = "unknown"

K_46_X_garbage ==
    <<"4", "6", ",", "X", ",", "g", "a", "r", "b", "a", "g", "e">>

====
